---- MODULE Spec2Model ----
(***************************************************************************)
(* Clock-schematic validation and field operations of                     *)
(* stm32-api-generator.                                                    *)
(*                                                                         *)
(* A String is a sequence of one-character strings; a HashMap is a         *)
(* sequence of entries (each with its key), the order of the sequence      *)
(* being the order in which the map iterates.                              *)
(***************************************************************************)
EXTENDS Integers, Sequences, FiniteSets, TLC

VARIABLES device, ron, schematic, result, ran, pc, call, warnings, answer, driver

vars == <<device, ron, schematic, result, ran, pc, call, warnings, answer, driver>>

(***************************************************************************)
(* Strings                                                                 *)
(***************************************************************************)

\* The printable ASCII characters, in code order: AsciiPrintable[i] has code 31 + i
\* (code 96, the grave accent, is spelled "grave").
AsciiPrintable ==
  <<" ", "!", "\"", "#", "$", "%", "&", "'", "(", ")", "*", "+", ",", "-", ".", "/",
    "0", "1", "2", "3", "4", "5", "6", "7", "8", "9", ":", ";", "<", "=", ">", "?",
    "@", "A", "B", "C", "D", "E", "F", "G", "H", "I", "J", "K", "L", "M", "N", "O",
    "P", "Q", "R", "S", "T", "U", "V", "W", "X", "Y", "Z", "[", "\\", "]", "^", "_",
    "grave", "a", "b", "c", "d", "e", "f", "g", "h", "i", "j", "k", "l", "m", "n", "o",
    "p", "q", "r", "s", "t", "u", "v", "w", "x", "y", "z", "{", "|", "}", "~">>

CharCode(c) == 31 + (CHOOSE i \in DOMAIN AsciiPrintable : AsciiPrintable[i] = c)

\* char::to_lowercase on an ASCII character
CharToLowercase(c) ==
  LET code == CharCode(c)
  IN IF code >= 65 /\ code <= 90 THEN AsciiPrintable[code + 32 - 31] ELSE c

\* str::to_lowercase
to_lowercase(s) == [i \in DOMAIN s |-> CharToLowercase(s[i])]

\* Ord for String: byte-wise lexicographic
StrLess(s, t) ==
  \E k \in 1 .. Len(t) :
    /\ k - 1 <= Len(s)
    /\ \A l \in 1 .. k - 1 : s[l] = t[l]
    /\ \/ k - 1 = Len(s)
       \/ (s[k] # t[k] /\ CharCode(s[k]) < CharCode(t[k]))

StrLeq(s, t) == s = t \/ StrLess(s, t)

RECURSIVE Concat(_)
Concat(ss) == IF ss = <<>> THEN <<>> ELSE Head(ss) \o Concat(Tail(ss))

\* [String]::join(sep)
RECURSIVE join(_, _)
join(ss, sep) ==
  IF ss = <<>> THEN <<>>
  ELSE IF Len(ss) = 1 THEN ss[1]
  ELSE ss[1] \o sep \o join(Tail(ss), sep)

CommaSep == <<",", " ">>
ArrowSep == <<" ", "-", ">", " ">>

(***************************************************************************)
(* Vec                                                                     *)
(***************************************************************************)

contains(v, x) == \E i \in DOMAIN v : v[i] = x

RECURSIVE InsertSorted(_, _)
InsertSorted(v, x) ==
  IF v = <<>> THEN <<x>>
  ELSE IF StrLess(x, v[1]) THEN <<x>> \o v
  ELSE <<v[1]>> \o InsertSorted(Tail(v), x)

\* Vec<String>::sort
RECURSIVE sort(_)
sort(v) == IF v = <<>> THEN <<>> ELSE InsertSorted(sort(Tail(v)), Head(v))

\* Vec::dedup: drops every element equal to the one before it
RECURSIVE dedup(_)
dedup(v) ==
  IF Len(v) <= 1 THEN v
  ELSE IF v[1] = v[2] THEN dedup(Tail(v))
  ELSE <<v[1]>> \o dedup(Tail(v))

\* Iterator::filter, given the positions of the elements that pass: those elements,
\* in their order
RECURSIVE KeepFrom(_, _, _)
KeepFrom(v, keep, from) ==
  IF from > Len(v) THEN <<>>
  ELSE (IF from \in keep THEN <<v[from]>> ELSE <<>>) \o KeepFrom(v, keep, from + 1)

Keep(v, keep) == KeepFrom(v, keep, 1)


(***************************************************************************)
(* Results.  An error is the format string of its anyhow!(...) call, named *)
(* by kind, with the strings substituted into it, in order:                *)
(*   InvalidName         "Name '{}' contains invalid character: '{}'"      *)
(*   DuplicateName       "Duplicate name: {}"                              *)
(*   NonexistentInputs   "Nonexistent inputs: {} (maybe these are          *)
(*                        terminal taps?)"                                 *)
(*   UnusedOutputs       "Unused outputs: {} (maybe these are non-terminal *)
(*                        taps?)"                                          *)
(*   MultiplexerDefaults "Multiplexers have default inputs not in their    *)
(*                        input lists: {}"                                 *)
(*   DividerDefaults     "Dividers have default values not in their value  *)
(*                        lists: {}"                                       *)
(*   MultiplierDefaults  "Multipliers have default values not in their     *)
(*                        value lists: {}"                                 *)
(*   Loops               "Loop(s) detected: {}"                            *)
(*   NoField             "No field named '{}' in SVD spec"                 *)
(*   BitValueTooBig      "Bit value '{}' does not fit in {}-bit field '{}' *)
(*                        ({})"                                            *)
(***************************************************************************)

Ok == [kind |-> "Ok", args |-> <<>>]

Err(kind, args) == [kind |-> kind, args |-> args]

IsOk(r) == r.kind = "Ok"

(***************************************************************************)
(* ClockSchematic                                                          *)
(***************************************************************************)

\* ClockOutputNameSelection
TerminalTapsOnly == "TerminalTapsOnly"
EverythingExceptTerminalTaps == "EverythingExceptTerminalTaps"
Everything == "Everything"

\* HashMap::keys
keys(m) == [i \in DOMAIN m |-> m[i].key]

\* the name fields of HashMap::values
names(m) == [i \in DOMAIN m |-> m[i].name]

list_outputs(s, selection) ==
  LET terminal_taps_only ==
        names(Keep(s.taps, {i \in DOMAIN s.taps : s.taps[i].terminal}))
      everything_except_terminal_taps ==
        keys(s.oscillators) \o keys(s.multiplexers) \o keys(s.dividers)
          \o keys(s.multipliers)
          \o names(Keep(s.taps, {i \in DOMAIN s.taps : ~s.taps[i].terminal}))
  IN CASE selection = TerminalTapsOnly -> terminal_taps_only
       [] selection = EverythingExceptTerminalTaps -> everything_except_terminal_taps
       [] selection = Everything -> terminal_taps_only \o everything_except_terminal_taps

\* the input fields of HashMap::values
inputs_of(m) == [i \in DOMAIN m |-> m[i].input]

\* list_inputs without its sort
list_inputs_unsorted(s) ==
  LET inputs ==
        Concat([i \in DOMAIN s.multiplexers |-> keys(s.multiplexers[i].inputs)])
          \o inputs_of(s.dividers) \o inputs_of(s.multipliers) \o inputs_of(s.taps)
  IN dedup(inputs)

list_inputs(s) ==
  LET inputs ==
        Concat([i \in DOMAIN s.multiplexers |-> keys(s.multiplexers[i].inputs)])
          \o inputs_of(s.dividers) \o inputs_of(s.multipliers) \o inputs_of(s.taps)
  IN dedup(sort(inputs))

\* allowed_chars with the underscore left out
allowed_chars_without_underscore ==
  <<"a", "b", "c", "d", "e", "f", "g", "h", "i", "j", "k", "l", "m", "n", "o", "p", "q",
    "r", "s", "t", "u", "v", "w", "x", "y", "z", "0", "1", "2", "3", "4", "5", "6", "7",
    "8", "9">>

allowed_chars ==
  <<"a", "b", "c", "d", "e", "f", "g", "h", "i", "j", "k", "l", "m", "n", "o", "p", "q",
    "r", "s", "t", "u", "v", "w", "x", "y", "z", "0", "1", "2", "3", "4", "5", "6", "7",
    "8", "9", "_">>

\* the inner loop of check_valid_names: the first character of the lowercased name
\* that allowed_chars does not contain, as a one-character string, or <<>>
FirstInvalidChar(name) ==
  LET lower == to_lowercase(name)
      bad == {i \in DOMAIN lower : ~contains(allowed_chars, lower[i])}
  IN IF bad = {} THEN <<>>
     ELSE <<lower[CHOOSE i \in bad : \A j \in bad : i <= j]>>

check_valid_names(s) ==
  LET all_names == list_inputs(s) \o list_outputs(s, Everything)
      bad == {i \in DOMAIN all_names : FirstInvalidChar(all_names[i]) # <<>>}
  IN IF bad = {} THEN Ok
     ELSE LET first == CHOOSE i \in bad : \A j \in bad : i <= j
          IN Err("InvalidName", <<all_names[first], FirstInvalidChar(all_names[first])>>)

\* check_no_duplicate_names comparing neighbours of the unsorted list
check_no_duplicate_names_unsorted(s) ==
  LET unsorted == list_outputs(s, Everything)
      dup == {i \in DOMAIN unsorted : i > 1 /\ unsorted[i - 1] = unsorted[i]}
  IN IF dup = {} THEN Ok
     ELSE Err("DuplicateName", <<unsorted[CHOOSE i \in dup : \A j \in dup : i <= j]>>)

check_no_duplicate_names(s) ==
  LET sorted == sort(list_outputs(s, Everything))
      \* positions whose name equals last_name, the name before it
      dup == {i \in DOMAIN sorted : i > 1 /\ sorted[i - 1] = sorted[i]}
  IN IF dup = {} THEN Ok
     ELSE Err("DuplicateName", <<sorted[CHOOSE i \in dup : \A j \in dup : i <= j]>>)

Off == <<"o", "f", "f">>

check_all_inputs_exist(s) ==
  LET inputs == list_inputs(s)
      outputs == list_outputs(s, EverythingExceptTerminalTaps)
      nonexistent_inputs ==
        Keep(inputs, {i \in DOMAIN inputs : ~contains(outputs, inputs[i]) /\ inputs[i] # Off})
  IN IF Len(nonexistent_inputs) > 0
     THEN Err("NonexistentInputs", <<join(nonexistent_inputs, CommaSep)>>)
     ELSE Ok

check_all_outputs_are_used(s) ==
  LET inputs == list_inputs(s)
      outputs == list_outputs(s, EverythingExceptTerminalTaps)
      unused_outputs == Keep(outputs, {i \in DOMAIN outputs : ~contains(inputs, outputs[i])})
  IN IF Len(unused_outputs) > 0
     THEN Err("UnusedOutputs", <<join(unused_outputs, CommaSep)>>)
     ELSE Ok

\* check_multiplexer_defaults_exist passing over a multiplexer without inputs, the way
\* the divider and multiplier checks pass over an empty value list
check_multiplexer_defaults_exist_nonempty(s) ==
  LET multiplexers_with_bad_defaults ==
        names(Keep(s.multiplexers,
                   {k \in DOMAIN s.multiplexers :
                      /\ Len(s.multiplexers[k].inputs) > 0
                      /\ ~\E i \in DOMAIN s.multiplexers[k].inputs :
                            s.multiplexers[k].inputs[i].name = s.multiplexers[k].default}))
  IN IF Len(multiplexers_with_bad_defaults) > 0
     THEN Err("MultiplexerDefaults", <<join(multiplexers_with_bad_defaults, CommaSep)>>)
     ELSE Ok

check_multiplexer_defaults_exist(s) ==
  LET multiplexers_with_bad_defaults ==
        names(Keep(s.multiplexers,
                   {k \in DOMAIN s.multiplexers :
                      ~\E i \in DOMAIN s.multiplexers[k].inputs :
                         s.multiplexers[k].inputs[i].name = s.multiplexers[k].default}))
  IN IF Len(multiplexers_with_bad_defaults) > 0
     THEN Err("MultiplexerDefaults", <<join(multiplexers_with_bad_defaults, CommaSep)>>)
     ELSE Ok

\* check_divider_defaults_exist reporting the first divider it finds only
check_divider_defaults_exist_first_only(s) ==
  LET dividers_with_bad_defaults ==
        names(Keep(s.dividers,
                   {k \in DOMAIN s.dividers :
                      /\ Len(s.dividers[k].values) > 0
                      /\ ~\E i \in DOMAIN s.dividers[k].values :
                            s.dividers[k].values[i].divisor = s.dividers[k].default}))
  IN IF Len(dividers_with_bad_defaults) > 0
     THEN Err("DividerDefaults", <<Head(dividers_with_bad_defaults)>>)
     ELSE Ok

check_divider_defaults_exist(s) ==
  LET dividers_with_bad_defaults ==
        names(Keep(s.dividers,
                   {k \in DOMAIN s.dividers :
                      /\ Len(s.dividers[k].values) > 0
                      /\ ~\E i \in DOMAIN s.dividers[k].values :
                            s.dividers[k].values[i].divisor = s.dividers[k].default}))
  IN IF Len(dividers_with_bad_defaults) > 0
     THEN Err("DividerDefaults", <<join(dividers_with_bad_defaults, CommaSep)>>)
     ELSE Ok

\* check_multiplier_defaults_exist without the filter that exempts an empty value list
check_multiplier_defaults_exist_without_exemption(s) ==
  LET multipliers_with_bad_defaults ==
        names(Keep(s.multipliers,
                   {k \in DOMAIN s.multipliers :
                      ~\E i \in DOMAIN s.multipliers[k].values :
                         s.multipliers[k].values[i].factor = s.multipliers[k].default}))
  IN IF Len(multipliers_with_bad_defaults) > 0
     THEN Err("MultiplierDefaults", <<join(multipliers_with_bad_defaults, CommaSep)>>)
     ELSE Ok

check_multiplier_defaults_exist(s) ==
  LET multipliers_with_bad_defaults ==
        names(Keep(s.multipliers,
                   {k \in DOMAIN s.multipliers :
                      /\ Len(s.multipliers[k].values) > 0
                      /\ ~\E i \in DOMAIN s.multipliers[k].values :
                            s.multipliers[k].values[i].factor = s.multipliers[k].default}))
  IN IF Len(multipliers_with_bad_defaults) > 0
     THEN Err("MultiplierDefaults", <<join(multipliers_with_bad_defaults, CommaSep)>>)
     ELSE Ok


\* TakersOf stopping at the first component it finds
TakersOf_first_only(m, comp_name) ==
  LET found == names(Keep(m, {k \in DOMAIN m : m[k].input = comp_name}))
  IN IF found = <<>> THEN <<>> ELSE <<found[1]>>

\* the names of the components of a map (dividers, multipliers or taps) whose input
\* is comp_name
TakersOf(m, comp_name) == names(Keep(m, {k \in DOMAIN m : m[k].input = comp_name}))

\* get_next with the taps ahead of the other kinds
get_next_taps_first(s, comp_name) ==
  TakersOf(s.taps, comp_name)
    \o names(Keep(s.multiplexers,
                  {k \in DOMAIN s.multiplexers :
                     \E i \in DOMAIN s.multiplexers[k].inputs :
                        s.multiplexers[k].inputs[i].name = comp_name}))
    \o TakersOf(s.dividers, comp_name)
    \o TakersOf(s.multipliers, comp_name)

get_next(s, comp_name) ==
  names(Keep(s.multiplexers,
             {k \in DOMAIN s.multiplexers :
                \E i \in DOMAIN s.multiplexers[k].inputs :
                   s.multiplexers[k].inputs[i].name = comp_name}))
    \o TakersOf(s.dividers, comp_name)
    \o TakersOf(s.multipliers, comp_name)
    \o TakersOf(s.taps, comp_name)

make_paths(s, path) ==
  IF path = <<>> THEN <<>>
  ELSE LET next == get_next(s, path[Len(path)])
       IN IF Len(next) = 0 THEN <<path>>
          ELSE [i \in DOMAIN next |-> Append(path, next[i])]

MAX_DEPTH == 32

\* one iteration of the loop of get_paths
ExtendPaths(s, paths) == Concat([i \in DOMAIN paths |-> make_paths(s, paths[i])])

\* n iterations of it (an empty list of paths stays empty)
RECURSIVE ExtendPathsTimes(_, _, _)
ExtendPathsTimes(s, paths, n) ==
  IF n = 0 \/ paths = <<>> THEN paths
  ELSE ExtendPathsTimes(s, ExtendPaths(s, paths), n - 1)

\* get_paths with one iteration more
get_paths_one_more_round(s) == ExtendPathsTimes(s, <<keys(s.oscillators)>>, MAX_DEPTH + 1)

get_paths(s) == ExtendPathsTimes(s, <<keys(s.oscillators)>>, MAX_DEPTH)

find_loop(path) ==
  LET \* the start positions that have a later occurrence of the same name
      Recurs(a) == \E b \in a + 1 .. Len(path) : path[b] = path[a]
      starts == {a \in 1 .. Len(path) - 1 : Recurs(a)}
  IN IF starts = {} THEN <<>>
     ELSE LET i == CHOOSE k \in starts : \A l \in starts : k <= l
              ends == {b \in i + 1 .. Len(path) : path[b] = path[i]}
              j == CHOOSE k \in ends : \A l \in ends : k <= l
          IN SubSeq(path, i, j)

\* check_no_loops without its dedup
check_no_loops_without_dedup(s) ==
  LET paths == get_paths(s)
      found == [k \in DOMAIN paths |-> find_loop(paths[k])]
      loops == Keep(found, {k \in DOMAIN found : found[k] # <<>>})
      loop_descriptions == sort([k \in DOMAIN loops |-> join(loops[k], ArrowSep)])
  IN IF Len(loop_descriptions) > 0
     THEN Err("Loops", <<join(loop_descriptions, CommaSep)>>)
     ELSE Ok

check_no_loops(s) ==
  LET paths == get_paths(s)
      found == [k \in DOMAIN paths |-> find_loop(paths[k])]
      loops == Keep(found, {k \in DOMAIN found : found[k] # <<>>})
      loop_descriptions == dedup(sort([k \in DOMAIN loops |-> join(loops[k], ArrowSep)]))
  IN IF Len(loop_descriptions) > 0
     THEN Err("Loops", <<join(loop_descriptions, CommaSep)>>)
     ELSE Ok

\* v.name = k.clone() for every (k, v) of a map
Named(m) == [i \in DOMAIN m |-> [m[i] EXCEPT !.name = m[i].key]]

\* set_names leaving the inputs and options of the components as they were
set_names_components_only(s) ==
  [s EXCEPT !.flash_latency.ranges = Named(s.flash_latency.ranges),
            !.oscillators = Named(s.oscillators),
            !.multiplexers = Named(s.multiplexers),
            !.dividers = Named(s.dividers),
            !.multipliers = Named(s.multipliers),
            !.taps = Named(s.taps)]

set_names(s) ==
  [s EXCEPT !.flash_latency.ranges = Named(s.flash_latency.ranges),
            !.oscillators = Named(s.oscillators),
            !.multiplexers =
              [k \in DOMAIN s.multiplexers |->
                 [s.multiplexers[k] EXCEPT !.name = s.multiplexers[k].key,
                                           !.inputs = Named(s.multiplexers[k].inputs)]],
            !.dividers =
              [k \in DOMAIN s.dividers |->
                 [s.dividers[k] EXCEPT !.name = s.dividers[k].key,
                                       !.values = Named(s.dividers[k].values)]],
            !.multipliers =
              [k \in DOMAIN s.multipliers |->
                 [s.multipliers[k] EXCEPT !.name = s.multipliers[k].key,
                                          !.values = Named(s.multipliers[k].values)]],
            !.taps = Named(s.taps)]

flag_sys_clk_mux(s) ==
  [s EXCEPT !.multiplexers =
     [k \in DOMAIN s.multiplexers |->
        IF s.multiplexers[k].name = s.sys_clk_mux
        THEN [s.multiplexers[k] EXCEPT !.is_sys_clk_mux = TRUE]
        ELSE s.multiplexers[k]]]

\* get_sys_clk_mux answering with the first multiplexer, whatever its name
get_sys_clk_mux_first(s) ==
  IF s.multiplexers = <<>> THEN Err("NoSysClkMux", <<s.sys_clk_mux>>)
  ELSE [kind |-> "Ok", args |-> <<s.multiplexers[1]>>]

get_sys_clk_mux(s) ==
  LET found == {k \in DOMAIN s.multiplexers : s.multiplexers[k].name = s.sys_clk_mux}
  IN IF found = {} THEN Err("NoSysClkMux", <<s.sys_clk_mux>>)
     ELSE [kind |-> "Ok",
           args |-> <<s.multiplexers[CHOOSE k \in found : \A l \in found : k <= l]>>]

(***************************************************************************)
(* ClockGenerator                                                          *)
(***************************************************************************)

\* The register catalog (svd_expander::DeviceSpec): its fields, by dotted path.
TimerEn == <<"t", "i", "m", "e", "r", "0", ".", "c", "r", ".", "e", "n">>
TimerMode == <<"t", "i", "m", "e", "r", "0", ".", "c", "r", ".", "m", "o", "d", "e">>
BogusField == <<"b", "o", "g", "u", "s", ".", "f", "i", "e", "l", "d">>

DeviceFields ==
  {[path |-> TimerEn, width |-> 1], [path |-> TimerMode, width |-> 3]}

\* DeviceSpec::try_get_field: the fields of that path (none, or one)
try_get_field(spec, path) == {f \in spec : f.path = path}

\* u32 Display
RECURSIVE ToDecimal(_)
ToDecimal(n) ==
  IF n < 10 THEN <<AsciiPrintable[n + 17]>>
  ELSE Append(ToDecimal(n \div 10), AsciiPrintable[(n % 10) + 17])

\* A u32 is its 32 bits, the most significant first.
U32_MAX == [i \in 1 .. 32 |-> 1]

\* the u32 of a number below 2^31
U32(n) == [i \in 1 .. 32 |-> IF i = 1 THEN 0 ELSE (n \div (2 ^ (32 - i))) % 2]

\* u32 << n and u32 >> n, for n < 32
Shl32(x, n) == [i \in 1 .. 32 |-> IF i + n <= 32 THEN x[i + n] ELSE 0]
Shr32(x, n) == [i \in 1 .. 32 |-> IF i - n >= 1 THEN x[i - n] ELSE 0]

\* u32 > u32
Gt32(x, y) ==
  \E i \in 1 .. 32 : x[i] > y[i] /\ \A j \in 1 .. i - 1 : x[j] = y[j]

is_fixed_value(c) == Len(c.values) = 0

\* the ClockComponent variant of every value of a map
Variant(variant, m) == [i \in DOMAIN m |-> [variant |-> variant, c |-> m[i]]]

get_all_components(s) ==
  Variant("Oscillator", s.oscillators) \o Variant("Multiplexer", s.multiplexers)
    \o Variant("Divider", s.dividers) \o Variant("Multiplier", s.multipliers)
    \o Variant("Tap", s.taps)

\* check_valid_field_paths taking the path of a fixed-ratio divider or multiplier too
check_valid_field_paths_without_exemption(g) ==
  LET comps == get_all_components(g.schematic)
      with_path ==
        Keep(comps,
             {k \in DOMAIN comps : comps[k].variant \in {"Multiplexer", "Divider", "Multiplier"}})
      input_paths == [k \in DOMAIN with_path |-> with_path[k].c.path]
      missing == {i \in DOMAIN input_paths : try_get_field(g.spec, input_paths[i]) = {}}
  IN IF missing = {} THEN Ok
     ELSE Err("NoField", <<input_paths[CHOOSE i \in missing : \A j \in missing : i <= j]>>)

check_valid_field_paths(g) ==
  LET comps == get_all_components(g.schematic)
      with_path ==
        Keep(comps,
             {k \in DOMAIN comps :
                \/ comps[k].variant = "Multiplexer"
                \/ /\ comps[k].variant \in {"Divider", "Multiplier"}
                   /\ ~is_fixed_value(comps[k].c)})
      input_paths == [k \in DOMAIN with_path |-> with_path[k].c.path]
      missing == {i \in DOMAIN input_paths : try_get_field(g.spec, input_paths[i]) = {}}
  IN IF missing = {} THEN Ok
     ELSE Err("NoField", <<input_paths[CHOOSE i \in missing : \A j \in missing : i <= j]>>)

\* max_val with a shift of one bit less
max_val_one_bit_more(width) == Shr32(Shl32(U32_MAX, 31 - width), 31 - width)

\* let shift = 32 - field_spec.width; let max_val = std::u32::MAX << shift >> shift;
max_val(width) == Shr32(Shl32(U32_MAX, 32 - width), 32 - width)

check_valid_input_size(g, path, bit_value, component_name) ==
  LET found == try_get_field(g.spec, path)
  IN IF found = {} THEN Err("GetField", <<path>>)
     ELSE LET field_spec == CHOOSE f \in found : TRUE
          IN IF Gt32(U32(bit_value), max_val(field_spec.width))
             THEN Err("BitValueTooBig",
                      <<ToDecimal(bit_value), ToDecimal(field_spec.width), path,
                        component_name>>)
             ELSE Ok

\* the (path, bit value, name) triples that one component contributes
FieldVals(comp) ==
  CASE comp.variant = "Multiplexer" ->
         [i \in DOMAIN comp.c.inputs |->
            <<comp.c.path, comp.c.inputs[i].bit_value, comp.c.inputs[i].name>>]
    [] comp.variant \in {"Divider", "Multiplier"} ->
         IF is_fixed_value(comp.c) THEN <<>>
         ELSE [i \in DOMAIN comp.c.values |->
                 <<comp.c.path, comp.c.values[i].bit_value, comp.c.values[i].name>>]
    [] OTHER -> <<>>

check_valid_field_input_sizes(g) ==
  LET comps == get_all_components(g.schematic)
      field_vals == Concat([k \in DOMAIN comps |-> FieldVals(comps[k])])
      checked ==
        [k \in DOMAIN field_vals |->
           check_valid_input_size(g, field_vals[k][1], field_vals[k][2], field_vals[k][3])]
      bad == {k \in DOMAIN checked : ~IsOk(checked[k])}
  IN IF bad = {} THEN Ok ELSE checked[CHOOSE i \in bad : \A j \in bad : i <= j]

\* validate with the unused-output check ahead of the nonexistent-input check
ValidateOrder_outputs_first ==
  <<"check_valid_names", "check_no_duplicate_names", "check_all_outputs_are_used",
    "check_all_inputs_exist", "check_multiplexer_defaults_exist",
    "check_divider_defaults_exist", "check_multiplier_defaults_exist", "check_no_loops">>

\* the checks of ClockSchematic::validate, in the order of its statements
ValidateOrder ==
  <<"check_valid_names", "check_no_duplicate_names", "check_all_inputs_exist",
    "check_all_outputs_are_used", "check_multiplexer_defaults_exist",
    "check_divider_defaults_exist", "check_multiplier_defaults_exist", "check_no_loops">>

\* the checks of ClockGenerator::validate, in the order of its statements
GeneratorOrder == <<"check_valid_field_paths", "check_valid_field_input_sizes">>

\* self.<check>() on a generator g
RunCheck(g, check) ==
  CASE check = "check_valid_names" -> check_valid_names(g.schematic)
    [] check = "check_no_duplicate_names" -> check_no_duplicate_names(g.schematic)
    [] check = "check_all_inputs_exist" -> check_all_inputs_exist(g.schematic)
    [] check = "check_all_outputs_are_used" -> check_all_outputs_are_used(g.schematic)
    [] check = "check_multiplexer_defaults_exist" ->
         check_multiplexer_defaults_exist(g.schematic)
    [] check = "check_divider_defaults_exist" -> check_divider_defaults_exist(g.schematic)
    [] check = "check_multiplier_defaults_exist" ->
         check_multiplier_defaults_exist(g.schematic)
    [] check = "check_no_loops" -> check_no_loops(g.schematic)
    [] check = "check_valid_field_paths" -> check_valid_field_paths(g)
    [] check = "check_valid_field_input_sizes" -> check_valid_field_input_sizes(g)

\* a chain of `self.check()?;` statements ending in Ok(()): the outcome, and the
\* checks that were called
RECURSIVE RunChecks(_, _, _)

\* the ? after a check: go on when it passed, return its error otherwise
Propagate(g, order, done, outcome) ==
  IF IsOk(outcome) THEN RunChecks(g, Tail(order), Append(done, Head(order)))
  ELSE [result |-> outcome, ran |-> Append(done, Head(order))]

RunChecks(g, order, done) ==
  IF order = <<>> THEN [result |-> Ok, ran |-> done]
  ELSE Propagate(g, order, done, RunCheck(g, Head(order)))

\* ClockSchematic::validate
validate(s) == RunChecks([spec |-> {}, schematic |-> s], ValidateOrder, <<>>)

\* ClockGenerator::validate
generator_validate(g, done) == RunChecks(g, GeneratorOrder, done)

\* a schematic with the outcome of a validation of it
Validated(sch, validated) ==
  [sch |-> sch, result |-> validated.result, ran |-> validated.ran]

\* self.validate()? of postprocess
postprocess_validate(sch) == Validated(sch, validate(sch))

\* ClockSchematic::from_ron, on the deserialized source: the schematic that
\* postprocess leaves and the outcome of its validation
postprocess(source) == postprocess_validate(flag_sys_clk_mux(set_names(source)))

\* generator.validate()? of ClockGenerator::from_ron, reached when the schematic was built
from_ron_validate(parsed, spec) ==
  IF ~IsOk(parsed.result) THEN parsed
  ELSE Validated(parsed.sch,
                 generator_validate([spec |-> spec, schematic |-> parsed.sch], parsed.ran))

\* ClockGenerator::from_ron: ClockSchematic::from_ron(ron)?, then generator.validate()?
ClockGenerator_from_ron(source, spec) == from_ron_validate(postprocess(source), spec)

(***************************************************************************)
(* Source texts, as ron::from_str deserializes them.  A name field that the *)
(* text leaves out is the empty string (#[serde(default)]).                *)
(***************************************************************************)

Oscillator(key) == [key |-> key, name |-> <<>>]

MultiplexerInput(key, bit_value) == [key |-> key, name |-> <<>>, bit_value |-> bit_value]

Multiplexer(key, inputs, default, path) ==
  [key |-> key, name |-> <<>>, inputs |-> inputs, default |-> default, path |-> path,
   is_sys_clk_mux |-> FALSE]

DividerOption(key, divisor, bit_value) ==
  [key |-> key, name |-> <<>>, divisor |-> divisor, bit_value |-> bit_value]

MultiplierOption(key, factor, bit_value) ==
  [key |-> key, name |-> <<>>, factor |-> factor, bit_value |-> bit_value]

\* Divider and Multiplier have the same fields
Scaler(key, input, default, values, path) ==
  [key |-> key, name |-> <<>>, input |-> input, default |-> default, values |-> values,
   path |-> path]

Tap(key, input, terminal) ==
  [key |-> key, name |-> <<>>, input |-> input, terminal |-> terminal]

FlashLatencyRange(key, bit_value) == [key |-> key, name |-> <<>>, bit_value |-> bit_value]

ClockSchematic(oscillators, multiplexers, dividers, multipliers, taps) ==
  [sys_clk_mux |-> <<"m">>,
   flash_latency |-> [path |-> TimerMode, ranges |-> <<FlashLatencyRange(<<"r">>, 0)>>],
   oscillators |-> oscillators, multiplexers |-> multiplexers, dividers |-> dividers,
   multipliers |-> multipliers, taps |-> taps]

\* the sequences of at most n entries with distinct keys drawn from a set of entries
DistinctSeqs(S, n) ==
  UNION {{q \in [1 .. k -> S] : \A i, j \in 1 .. k : i # j => q[i].key # q[j].key} :
         k \in 0 .. n}

\* a set of strings, in ascending order
RECURSIVE SortedSeq(_)
SortedSeq(S) ==
  IF S = {} THEN <<>>
  ELSE LET least == CHOOSE x \in S : \A y \in S : StrLeq(x, y)
       IN <<least>> \o SortedSeq(S \ {least})

MaxTaps == 1

\* Graphs: oscillators a, b; a multiplexer m; a fixed-ratio divider d; a multiplier u
\* with one option; a tap t, terminal or not, and a tap named like an oscillator.
OscillatorPool == {Oscillator(<<"a">>), Oscillator(<<"b">>)}
MuxInputPool == {<<"a">>, <<"u">>, Off}
MuxDefaultPool == {<<"a">>, <<"u">>}
DividerInputPool == {<<"a">>, <<"m">>, <<"d">>, <<"t">>}
MultiplierInputPool == {<<"d">>, <<"m">>}
TapPool ==
  {Tap(<<"t">>, <<"a">>, TRUE), Tap(<<"t">>, <<"b">>, TRUE), Tap(<<"t">>, <<"u">>, TRUE),
   Tap(<<"t">>, <<"u">>, FALSE), Tap(<<"a">>, <<"b">>, TRUE)}

GraphMultiplexers ==
  {<<>>} \cup
  {<<Multiplexer(<<"m">>,
                 LET ks == SortedSeq(ins)
                 IN [i \in DOMAIN ks |-> MultiplexerInput(ks[i], i - 1)],
                 def, TimerMode)>> :
     ins \in SUBSET MuxInputPool, def \in MuxDefaultPool}

GraphDividers ==
  {<<>>} \cup {<<Scaler(<<"d">>, i, 1, <<>>, <<>>)>> : i \in DividerInputPool}

GraphMultipliers ==
  {<<>>} \cup
  {<<Scaler(<<"u">>, i, 2, <<MultiplierOption(<<"x", "2">>, 2, 1)>>, TimerMode)>> :
     i \in MultiplierInputPool}

GraphSources ==
  {ClockSchematic(o, m, d, u, t) :
     o \in DistinctSeqs(OscillatorPool, Cardinality(OscillatorPool)),
     m \in GraphMultiplexers, d \in GraphDividers, u \in GraphMultipliers,
     t \in DistinctSeqs(TapPool, MaxTaps)}

\* Names: one oscillator and one terminal tap at most, with names and an input
\* of every spelling.
NamePool == {<<"a">>, <<"A">>, <<"a", "-">>, <<"B", " ">>, <<"_", "1">>}

NameSources ==
  {ClockSchematic(o, <<>>, <<>>, <<>>, t) :
     o \in DistinctSeqs({Oscillator(n) : n \in NamePool}, 1),
     t \in DistinctSeqs({Tap(n, i, TRUE) : n \in NamePool, i \in NamePool}, 1)}

\* Fields: the chain a -> m -> d -> u -> t with field paths, bit values and
\* defaults of every kind.
FieldDividers ==
  {<<Scaler(<<"d">>, <<"m">>, 1, <<>>, p)>> : p \in {<<>>, BogusField}} \cup
  {<<Scaler(<<"d">>, <<"m">>, 1, <<DividerOption(<<"d">>, div, bv)>>, TimerEn)>> :
     div \in {1, 2}, bv \in {1, 2}}

FieldSources ==
  {ClockSchematic(<<Oscillator(<<"a">>)>>,
                  <<Multiplexer(<<"m">>, <<MultiplexerInput(<<"a">>, mbv)>>, <<"a">>, mp)>>,
                  d,
                  <<Scaler(<<"u">>, <<"d">>, 2, <<MultiplierOption(<<"x", "2">>, 2, ubv)>>,
                           up)>>,
                  <<Tap(<<"t">>, <<"u">>, term)>>) :
     mbv \in {1, 8}, mp \in {TimerMode, BogusField}, d \in FieldDividers,
     ubv \in {1, 15}, up \in {TimerMode, BogusField}, term \in BOOLEAN}

\* Duplicates: oscillators a, b and terminal taps that take their names.
DuplicateSources ==
  {ClockSchematic(o, <<>>, <<>>, <<>>, t) :
     o \in DistinctSeqs(OscillatorPool, Cardinality(OscillatorPool)),
     t \in DistinctSeqs({Tap(<<"a">>, <<"a">>, TRUE), Tap(<<"b">>, <<"a">>, TRUE)}, 2)}

\* Multiplexers: two multiplexers m and n over the oscillator a, each read by a
\* terminal tap, with defaults among and outside their inputs.
MuxPairPool ==
  {Multiplexer(k, ins, def, TimerMode) :
     k \in {<<"m">>, <<"n">>},
     ins \in {<<>>, <<MultiplexerInput(<<"a">>, 0)>>},
     def \in MuxDefaultPool}

MuxSources ==
  {ClockSchematic(<<Oscillator(<<"a">>)>>, m, <<>>, <<>>,
                  <<Tap(<<"s">>, <<"m">>, TRUE), Tap(<<"t">>, <<"n">>, TRUE)>>) :
     m \in {q \in DistinctSeqs(MuxPairPool, 2) : Len(q) = 2}}

\* Loops: the oscillator a into the multiplexer m, m into the multiplexer n, a
\* divider z that reads m and may feed it, a multiplier c that may feed n.
LoopMuxInputs(ks) == [i \in DOMAIN ks |-> MultiplexerInput(ks[i], i - 1)]

LoopSources ==
  {ClockSchematic(<<Oscillator(<<"a">>)>>,
                  mux,
                  <<Scaler(<<"z">>, <<"m">>, 1, <<>>, <<>>)>>,
                  <<Scaler(<<"c">>, ci, 2, <<MultiplierOption(<<"x", "2">>, 2, 1)>>,
                           TimerMode)>>,
                  <<>>) :
     mux \in UNION {{<<m, n>>, <<n, m>>} :
                      m \in {Multiplexer(<<"m">>, LoopMuxInputs(ks), <<"a">>, TimerMode) :
                               ks \in {<<<<"a">>>>, <<<<"a">>, <<"z">>>>}},
                      n \in {Multiplexer(<<"n">>, LoopMuxInputs(ks), <<"m">>, TimerMode) :
                               ks \in {<<<<"m">>>>, <<<<"c">>, <<"m">>>>}}},
     ci \in {<<"m">>, <<"n">>}}

\* Defaults: the chain a -> m -> d -> e -> u -> t, the dividers d and e declared in
\* either order; every divider and multiplier is fixed-ratio, or has one or two
\* options, with a default among them or not.
DividerChoices ==
  {[values |-> <<>>, default |-> 1],
   [values |-> <<>>, default |-> 3],
   [values |-> <<DividerOption(<<"p">>, 1, 0)>>, default |-> 1],
   [values |-> <<DividerOption(<<"p">>, 1, 0)>>, default |-> 2],
   [values |-> <<DividerOption(<<"p">>, 1, 0), DividerOption(<<"q">>, 2, 1)>>, default |-> 2],
   [values |-> <<DividerOption(<<"p">>, 1, 0), DividerOption(<<"q">>, 2, 1)>>, default |-> 3]}

MultiplierChoices ==
  {[values |-> <<>>, default |-> 3],
   [values |-> <<MultiplierOption(<<"p">>, 2, 0)>>, default |-> 3],
   [values |-> <<MultiplierOption(<<"p">>, 2, 0), MultiplierOption(<<"q">>, 3, 1)>>,
    default |-> 3],
   [values |-> <<MultiplierOption(<<"p">>, 2, 0), MultiplierOption(<<"q">>, 3, 1)>>,
    default |-> 4]}

DefaultDividers ==
  UNION {{<<d, e>>, <<e, d>>} :
           d \in {Scaler(<<"d">>, <<"m">>, c.default, c.values, TimerMode) :
                    c \in DividerChoices},
           e \in {Scaler(<<"e">>, <<"d">>, c.default, c.values, TimerMode) :
                    c \in DividerChoices}}

DefaultSources ==
  {ClockSchematic(<<Oscillator(<<"a">>)>>,
                  <<Multiplexer(<<"m">>, <<MultiplexerInput(<<"a">>, 0)>>, def, TimerMode)>>,
                  d,
                  <<Scaler(<<"u">>, <<"e">>, c.default, c.values, TimerMode)>>,
                  <<Tap(<<"t">>, <<"u">>, TRUE)>>) :
     def \in {<<"a">>, <<"b">>}, d \in DefaultDividers, c \in MultiplierChoices}

\* Flash latency: the chain a -> m -> t with a flash-latency table of one range,
\* its path in the catalog or not, its bit value within three bits or not.
FlashSources ==
  {[ClockSchematic(<<Oscillator(<<"a">>)>>,
                   <<Multiplexer(<<"m">>, <<MultiplexerInput(<<"a">>, 0)>>, <<"a">>,
                                 TimerMode)>>,
                   <<>>, <<>>, <<Tap(<<"t">>, <<"m">>, TRUE)>>)
      EXCEPT !.flash_latency = [path |-> p, ranges |-> <<FlashLatencyRange(<<"r">>, bv)>>]] :
     p \in {TimerMode, BogusField}, bv \in {0, 7, 8}}

Sources ==
  GraphSources \cup NameSources \cup DuplicateSources \cup MuxSources \cup LoopSources
    \cup FieldSources \cup DefaultSources \cup FlashSources

(***************************************************************************)
(* The state machine.  ron is the source and device the register catalog;  *)
(* an operation builds from them and leaves its outcome in result, the     *)
(* checks it called in ran, and the schematic it validated (kept also when *)
(* it is rejected) in schematic.  call and warnings belong to the field    *)
(* operations: the call made, and the diagnostics it reported.  answer is  *)
(* what a later operation on the schematic returned, and driver the state  *)
(* of the command-line driver.                                             *)
(***************************************************************************)

Init ==
  /\ device = DeviceFields
  /\ ron \in Sources
  /\ schematic = <<>>
  /\ result = Ok
  /\ ran = <<>>
  /\ pc = "source"
  /\ call = <<>>
  /\ warnings = <<>>
  /\ answer = <<>>
  /\ driver = <<>>

\* ClockSchematic::from_ron
SchematicFromRon ==
  /\ pc = "source"
  /\ \E p \in {postprocess(ron)} :
       /\ schematic' = p.sch
       /\ result' = p.result
       /\ ran' = p.ran
  /\ pc' = "schematic"
  /\ UNCHANGED <<device, ron, call, warnings, answer, driver>>

\* ClockGenerator::from_ron
GeneratorFromRon ==
  /\ pc = "source"
  /\ \E p \in {ClockGenerator_from_ron(ron, device)} :
       /\ schematic' = p.sch
       /\ result' = p.result
       /\ ran' = p.ran
  /\ pc' = "generator"
  /\ UNCHANGED <<device, ron, call, warnings, answer, driver>>

Next == SchematicFromRon \/ GeneratorFromRon

Spec == Init /\ [][Next]_vars

(***************************************************************************)
(* Field sizes: the chain a -> m -> d -> u -> t, every path naming the one *)
(* field of the catalog, whose width is any of 1 .. 32; one multiplexer    *)
(* input, divider option or multiplier option carries a bit value at the   *)
(* edge of some width, the others carry 0.  Bit values are below 2^31.     *)
(***************************************************************************)
SizedCatalogs == {{[path |-> TimerMode, width |-> w]} : w \in 1 .. 32}

BitValueEdges ==
  {2 ^ k - 1 : k \in 0 .. 30} \cup {2 ^ k : k \in 0 .. 30} \cup {2 ^ 30 + (2 ^ 30 - 1)}

SizeSource(mbv, dbv, ubv) ==
  ClockSchematic(<<Oscillator(<<"a">>)>>,
                 <<Multiplexer(<<"m">>, <<MultiplexerInput(<<"a">>, mbv)>>, <<"a">>,
                               TimerMode)>>,
                 <<Scaler(<<"d">>, <<"m">>, 1, <<DividerOption(<<"p">>, 1, dbv)>>, TimerMode)>>,
                 <<Scaler(<<"u">>, <<"d">>, 2, <<MultiplierOption(<<"q">>, 2, ubv)>>,
                          TimerMode)>>,
                 <<Tap(<<"t">>, <<"u">>, TRUE)>>)

SizeSources ==
  UNION {{SizeSource(v, 0, 0), SizeSource(0, v, 0), SizeSource(0, 0, v)} :
           v \in BitValueEdges}

SizeInit ==
  /\ device \in SizedCatalogs
  /\ ron \in SizeSources
  /\ schematic = <<>>
  /\ result = Ok
  /\ ran = <<>>
  /\ pc = "source"
  /\ call = <<>>
  /\ warnings = <<>>
  /\ answer = <<>>
  /\ driver = <<>>

SizeSpec == SizeInit /\ [][Next]_vars

(***************************************************************************)
(* The operations on a schematic.  The sources are the two multiplexers m  *)
(* and n over the oscillator a, and the oscillator a with a tap alone,     *)
(* each with a system clock multiplexer of any name.                       *)
(***************************************************************************)
SysClkSources ==
  {[src EXCEPT !.sys_clk_mux = k] :
     src \in MuxSources
              \cup {ClockSchematic(<<Oscillator(<<"a">>)>>, <<>>, <<>>, <<>>,
                                   <<Tap(<<"t">>, <<"a">>, TRUE)>>)},
     k \in {<<"m">>, <<"n">>, <<"x">>}}

\* a `name: "..."` written in the body of every entity of a source
BodyNamed(m, n) == [i \in DOMAIN m |-> [m[i] EXCEPT !.name = n]]

WithBodyNames(s, n) ==
  [s EXCEPT !.flash_latency.ranges = BodyNamed(s.flash_latency.ranges, n),
            !.oscillators = BodyNamed(s.oscillators, n),
            !.multiplexers =
              [k \in DOMAIN s.multiplexers |->
                 [s.multiplexers[k] EXCEPT !.name = n,
                                           !.inputs = BodyNamed(s.multiplexers[k].inputs, n)]],
            !.dividers =
              [k \in DOMAIN s.dividers |->
                 [s.dividers[k] EXCEPT !.name = n,
                                       !.values = BodyNamed(s.dividers[k].values, n)]],
            !.multipliers =
              [k \in DOMAIN s.multipliers |->
                 [s.multipliers[k] EXCEPT !.name = n,
                                          !.values = BodyNamed(s.multipliers[k].values, n)]],
            !.taps = BodyNamed(s.taps, n)]

\* The chain a -> m -> d -> u -> t with two options on the divider and on the
\* multiplier, every entity written with no name, with a name that is not its
\* key, with the key of another entity, or with a name of invalid characters.
BodyNameSources ==
  {WithBodyNames(
     ClockSchematic(<<Oscillator(<<"a">>)>>,
                    <<Multiplexer(<<"m">>, <<MultiplexerInput(<<"a">>, 0)>>, <<"a">>,
                                  TimerMode)>>,
                    <<Scaler(<<"d">>, <<"m">>, 2,
                             <<DividerOption(<<"p">>, 1, 0), DividerOption(<<"q">>, 2, 1)>>,
                             TimerMode)>>,
                    <<Scaler(<<"u">>, <<"d">>, 3,
                             <<MultiplierOption(<<"p">>, 2, 0),
                               MultiplierOption(<<"q">>, 3, 1)>>, TimerMode)>>,
                    <<Tap(<<"t">>, <<"u">>, TRUE)>>), n) :
     n \in {<<>>, <<"z">>, <<"a">>, <<"!">>}}

\* Two oscillators, in either order: a feeds the multiplexer m, which the divider
\* d feeds back; b feeds the tap s.
OrderSources ==
  {ClockSchematic(o,
                  <<Multiplexer(<<"m">>, LoopMuxInputs(<<<<"a">>, <<"d">>>>), <<"a">>,
                                TimerMode)>>,
                  <<Scaler(<<"d">>, <<"m">>, 1, <<>>, <<>>)>>,
                  <<>>,
                  <<Tap(<<"s">>, <<"b">>, TRUE)>>) :
     o \in {<<Oscillator(<<"a">>), Oscillator(<<"b">>)>>,
            <<Oscillator(<<"b">>), Oscillator(<<"a">>)>>}}

QuerySources == SysClkSources \cup BodyNameSources \cup OrderSources

\* The orders in which a HashMap of the entries of m can iterate: the order is
\* that of the hasher of the instance (RandomState), not of the text.
Orders(m) ==
  {q \in [DOMAIN m -> {m[i] : i \in DOMAIN m}] : \A i, j \in DOMAIN m : i # j => q[i] # q[j]}

\* an entry with its inner map (inputs, values) in any order
InnerOrders(e, inner) == {[e EXCEPT ![inner] = v] : v \in Orders(e[inner])}

NestedOrders(m, inner) ==
  UNION {{r \in [DOMAIN q -> UNION {InnerOrders(q[i], inner) : i \in DOMAIN q}] :
            \A i \in DOMAIN q : r[i] \in InnerOrders(q[i], inner)} :
         q \in Orders(m)}

\* the schematics that ron::from_str can deserialize from the text of s
Deserialized(s) ==
  {[s EXCEPT !.flash_latency.ranges = r, !.oscillators = o, !.multiplexers = m,
             !.dividers = d, !.multipliers = u, !.taps = t] :
     r \in Orders(s.flash_latency.ranges), o \in Orders(s.oscillators),
     m \in NestedOrders(s.multiplexers, "inputs"), d \in NestedOrders(s.dividers, "values"),
     u \in NestedOrders(s.multipliers, "values"), t \in Orders(s.taps)}

QueryInit ==
  /\ device = DeviceFields
  /\ ron \in QuerySources
  /\ schematic = <<>>
  /\ result = Ok
  /\ ran = <<>>
  /\ pc = "source"
  /\ call = <<>>
  /\ warnings = <<>>
  /\ answer = <<>>
  /\ driver = <<>>

\* ClockSchematic::get_sys_clk_mux, on a schematic that from_ron returned
GetSysClkMux ==
  /\ pc = "schematic"
  /\ IsOk(result)
  /\ answer' = [operation |-> "get_sys_clk_mux", result |-> get_sys_clk_mux(schematic)]
  /\ pc' = "answered"
  /\ UNCHANGED <<device, ron, schematic, result, ran, call, warnings, driver>>

\* self.validate() once more, on the schematic that postprocess validated
ValidateAgain ==
  /\ pc = "schematic"
  /\ answer' = [operation |-> "validate", result |-> validate(schematic).result,
                sch |-> schematic]
  /\ pc' = "answered"
  /\ UNCHANGED <<device, ron, schematic, result, ran, call, warnings, driver>>

\* ClockSchematic::from_ron once more on the same text: the maps of the new
\* schematic iterate in an order of their own
FromRonAgain ==
  /\ pc = "schematic"
  /\ \E source \in Deserialized(ron) :
       answer' = [operation |-> "from_ron", result |-> postprocess(source).result,
                  sch |-> postprocess(source).sch]
  /\ pc' = "answered"
  /\ UNCHANGED <<device, ron, schematic, result, ran, call, warnings, driver>>

\* self.get_paths(), as check_no_loops calls it
GetPaths ==
  /\ pc = "schematic"
  /\ "check_no_loops" \in {ran[i] : i \in DOMAIN ran}
  /\ answer' = [operation |-> "get_paths", result |-> get_paths(schematic)]
  /\ pc' = "answered"
  /\ UNCHANGED <<device, ron, schematic, result, ran, call, warnings, driver>>

QueryNext ==
  SchematicFromRon \/ GetSysClkMux \/ ValidateAgain \/ FromRonAgain \/ GetPaths

QuerySpec == QueryInit /\ [][QueryNext]_vars

(***************************************************************************)
(* The walk of a schematic: get_next and get_paths.  The sources are a     *)
(* fork of every kind at the oscillator with further forks behind it, and  *)
(* chains of fixed-ratio dividers from the oscillator to a tap, as long as *)
(* the depth of the walk and longer, the maps in either order.             *)
(***************************************************************************)
MaxChain == 34

Reversed(q) == [i \in DOMAIN q |-> q[Len(q) + 1 - i]]

EitherOrder(q) == {q, Reversed(q)}

ForkSources ==
  {ClockSchematic(<<Oscillator(<<"a">>)>>,
                  <<Multiplexer(<<"m">>, <<MultiplexerInput(<<"a">>, 0)>>, <<"a">>,
                                TimerMode)>>,
                  d,
                  <<Scaler(<<"u">>, <<"a">>, 2, <<>>, <<>>)>>,
                  t) :
     d \in EitherOrder(<<Scaler(<<"d">>, <<"a">>, 1, <<>>, <<>>),
                         Scaler(<<"e">>, <<"m">>, 1, <<>>, <<>>)>>),
     t \in EitherOrder(<<Tap(<<"t">>, <<"a">>, TRUE), Tap(<<"s">>, <<"m">>, TRUE),
                         Tap(<<"r">>, <<"d">>, TRUE), Tap(<<"q">>, <<"u">>, TRUE),
                         Tap(<<"p">>, <<"e">>, TRUE), Tap(<<"o">>, <<"e">>, TRUE)>>)}

\* the name of the i-th node of a chain: the oscillator a, then c2, c3, ...
ChainName(i) == IF i = 1 THEN <<"a">> ELSE <<"c">> \o ToDecimal(i)

\* the chain of n nodes: a, the dividers c2 .. c(n-1), the tap t
ChainSources ==
  UNION {{ClockSchematic(<<Oscillator(<<"a">>)>>, <<>>, d, <<>>,
                         <<Tap(<<"t">>, ChainName(n - 1), TRUE)>>) :
            d \in EitherOrder([i \in 1 .. n - 2 |->
                                 Scaler(ChainName(i + 1), ChainName(i), 1, <<>>, <<>>)])} :
         n \in {2, 3, MAX_DEPTH, MAX_DEPTH + 1, MaxChain}}

\* Two loops through the multiplexer x: the short one x -> z -> m -> x through
\* the multiplexer m that the oscillator a feeds, and the long one
\* x -> y1 -> ... -> y11 -> x.
LongLoop == 11

TwoLoopSources ==
  {ClockSchematic(<<Oscillator(<<"a">>)>>,
                  <<Multiplexer(<<"m">>, LoopMuxInputs(<<<<"a">>, <<"z">>>>), <<"a">>,
                                TimerMode),
                    Multiplexer(<<"x">>,
                                LoopMuxInputs(<<<<"m">>, <<"y">> \o ToDecimal(LongLoop)>>),
                                <<"m">>, TimerMode)>>,
                  d, <<>>, <<>>) :
     d \in EitherOrder(
            [i \in 1 .. LongLoop |->
               Scaler(<<"y">> \o ToDecimal(i),
                      IF i = 1 THEN <<"x">> ELSE <<"y">> \o ToDecimal(i - 1),
                      1, <<>>, <<>>)]
              \o <<Scaler(<<"z">>, <<"x">>, 1, <<>>, <<>>)>>)}

PathSources == ForkSources \cup ChainSources \cup LoopSources \cup TwoLoopSources

PathInit ==
  /\ device = DeviceFields
  /\ ron \in PathSources
  /\ schematic = <<>>
  /\ result = Ok
  /\ ran = <<>>
  /\ pc = "source"
  /\ call = <<>>
  /\ warnings = <<>>
  /\ answer = <<>>
  /\ driver = <<>>

\* the names a caller can ask about: the keys of the schematic, and one more
ComponentNames(s) ==
  {s.oscillators[i].key : i \in DOMAIN s.oscillators}
    \cup {s.multiplexers[i].key : i \in DOMAIN s.multiplexers}
    \cup {s.dividers[i].key : i \in DOMAIN s.dividers}
    \cup {s.multipliers[i].key : i \in DOMAIN s.multipliers}
    \cup {s.taps[i].key : i \in DOMAIN s.taps}
    \cup {<<"b", "o", "g", "u", "s">>}

\* self.get_next(name), as make_paths calls it
GetNext ==
  /\ pc = "schematic"
  /\ "check_no_loops" \in {ran[i] : i \in DOMAIN ran}
  /\ \E name \in ComponentNames(schematic) :
       answer' = [operation |-> "get_next", name |-> name,
                  result |-> get_next(schematic, name)]
  /\ pc' = "answered"
  /\ UNCHANGED <<device, ron, schematic, result, ran, call, warnings, driver>>

\* Self::find_loop(path), as check_no_loops calls it on every path of get_paths
FindLoop ==
  /\ pc = "schematic"
  /\ "check_no_loops" \in {ran[i] : i \in DOMAIN ran}
  /\ \E path \in {get_paths(schematic)[i] : i \in DOMAIN get_paths(schematic)} :
       answer' = [operation |-> "find_loop", path |-> path, result |-> find_loop(path)]
  /\ pc' = "answered"
  /\ UNCHANGED <<device, ron, schematic, result, ran, call, warnings, driver>>

PathNext == SchematicFromRon \/ GetPaths \/ GetNext \/ FindLoop

PathSpec == PathInit /\ [][PathNext]_vars

(***************************************************************************)
(* The field operations (impl ReadWrite for DeviceSpec) and the write      *)
(* instructions (WriteInstruction).  An operation returns the text of an   *)
(* instruction, here the record of the parts that its format string puts   *)
(* together, or it panics; to_code returns an instruction or an error.     *)
(***************************************************************************)

\* u32 & u32, !u32
And32(x, y) == [i \in 1 .. 32 |-> x[i] * y[i]]
Not32(x) == [i \in 1 .. 32 |-> 1 - x[i]]

\* FieldSpec::mask, FieldSpec::address of svd_expander
mask(field) == Shl32(Shr32(U32_MAX, 32 - field.width), field.offset)
address(field) == field.register.address

\* a panic unwinds out of the operation: nothing is returned
Panic(message, args) == [kind |-> "Panic", args |-> <<message>> \o args]

\* the String that an operation returns
Instruction(name, interrupt_free, args, comment) ==
  [kind |-> "Ok",
   args |-> <<[name |-> name, itf |-> IF interrupt_free THEN "_itf" ELSE "",
              args |-> args, comment |-> comment]>>]

\* self.get_field(path).unwrap(), then the rest of the operation
Unwrapped(found, path, rest) ==
  IF found = {} THEN Panic("called Result::unwrap() on an Err value", <<path>>) ELSE rest

write_val(spec, path, expr, interrupt_free) ==
  LET found == try_get_field(spec, path)
      field == CHOOSE f \in found : TRUE
  IN Unwrapped(found, path,
               Instruction("write_val", interrupt_free,
                           <<address(field), mask(field), field.offset, expr>>,
                           <<"Set", path, "=", expr>>))

write_bit(spec, path, expr, interrupt_free) ==
  LET found == try_get_field(spec, path)
      field == CHOOSE f \in found : TRUE
  IN Unwrapped(found, path,
               Instruction("write_bit", interrupt_free,
                           <<address(field), mask(field), field.offset, expr>>,
                           <<"Set", path, "=", expr>>))

\* register_reset_mask & register_reset_val & mask >> offset: the shift binds
\* tighter than the conjunctions
reset_value(register_reset_mask, register_reset_val, field) ==
  And32(And32(register_reset_mask, register_reset_val), Shr32(mask(field), field.offset))

\* match register.reset_value { Some(rv) => rv, None => 0 }
register_reset_val(register) ==
  IF register.reset_value = <<>> THEN U32(0) ELSE register.reset_value[1]

\* match register.reset_mask { Some(rm) => rm, None => u32::MAX }
register_reset_mask(register) ==
  IF register.reset_mask = <<>> THEN U32_MAX ELSE register.reset_mask[1]

reset(spec, path, interrupt_free) ==
  LET found == try_get_field(spec, path)
      field == CHOOSE f \in found : TRUE
  IN Unwrapped(found, path,
               Instruction("write_val", interrupt_free,
                           <<address(field), mask(field), field.offset,
                             reset_value(register_reset_mask(field.register),
                                         register_reset_val(field.register), field)>>,
                           <<"Reset", path>>))

\* if field.width != 1 { panic!(...) }, then the rest of the operation
SingleBit(field, message, rest) ==
  IF field.width # 1 THEN Panic(message, <<>>) ELSE rest

set_bit(spec, path, interrupt_free) ==
  LET found == try_get_field(spec, path)
      field == CHOOSE f \in found : TRUE
  IN Unwrapped(found, path,
               SingleBit(field, "Cannot set single bit for a multi-bit field",
                         Instruction("set_bit", interrupt_free,
                                     <<address(field), mask(field)>>, <<"Set", path>>)))

clear_bit(spec, path, interrupt_free) ==
  LET found == try_get_field(spec, path)
      field == CHOOSE f \in found : TRUE
  IN Unwrapped(found, path,
               SingleBit(field, "Cannot clear single bit for a multi-bit field",
                         Instruction("clear_bit", interrupt_free,
                                     <<address(field), mask(field)>>, <<"Clear", path>>)))

read_val(spec, path) ==
  LET found == try_get_field(spec, path)
      field == CHOOSE f \in found : TRUE
  IN Unwrapped(found, path,
               Instruction("read_val", FALSE,
                           <<address(field), mask(field), field.offset>>, <<"Read", path>>))

is_set(spec, path) ==
  LET found == try_get_field(spec, path)
      field == CHOOSE f \in found : TRUE
  IN Unwrapped(found, path,
               Instruction("is_set", FALSE, <<address(field), mask(field)>>,
                           <<"Check if", path, "is 1">>))

is_clear(spec, path) ==
  LET found == try_get_field(spec, path)
      field == CHOOSE f \in found : TRUE
  IN Unwrapped(found, path,
               Instruction("is_clear", FALSE, <<address(field), mask(field)>>,
                           <<"Check if", path, "is 0">>))

wait_for_val(spec, path, expr, max_loops, interrupt_free) ==
  LET found == try_get_field(spec, path)
      field == CHOOSE f \in found : TRUE
  IN Unwrapped(found, path,
               Instruction("wait_for_val", interrupt_free,
                           <<address(field), mask(field), field.offset, expr, max_loops>>,
                           <<"Block until", path, "==", expr>>))

wait_for_clear(spec, path, max_loops, interrupt_free) ==
  LET found == try_get_field(spec, path)
      field == CHOOSE f \in found : TRUE
  IN Unwrapped(found, path,
               Instruction("wait_for_clear", interrupt_free,
                           <<address(field), mask(field), max_loops>>,
                           <<"Block until", path, "is cleared">>))

wait_for_set(spec, path, max_loops, interrupt_free) ==
  LET found == try_get_field(spec, path)
      field == CHOOSE f \in found : TRUE
  IN Unwrapped(found, path,
               Instruction("wait_for_set", interrupt_free,
                           <<address(field), mask(field), max_loops>>,
                           <<"Block until", path, "is set">>))

\* WriteInstruction::field_to_code: spec.get_field(path)? and the write_val line
\* field_to_code passing the mask where its complement belongs
field_to_code_mask_twice(path, value, spec) ==
  LET found == try_get_field(spec, path)
      field == CHOOSE f \in found : TRUE
  IN IF found = {} THEN Err("GetField", <<path>>)
     ELSE Instruction("write_val", FALSE,
                      <<address(field), mask(field), mask(field), field.offset, value>>,
                      <<>>)

field_to_code(path, value, spec) ==
  LET found == try_get_field(spec, path)
      field == CHOOSE f \in found : TRUE
  IN IF found = {} THEN Err("GetField", <<path>>)
     ELSE Instruction("write_val", FALSE,
                      <<address(field), mask(field), Not32(mask(field)), field.offset, value>>,
                      <<>>)

\* collect::<Result<Vec<String>>>(): the first error, or all the lines
Collect(results) ==
  LET bad == {i \in DOMAIN results : ~IsOk(results[i])}
  IN IF bad = {} THEN [kind |-> "Ok", args |-> [i \in DOMAIN results |-> results[i].args[1]]]
     ELSE results[CHOOSE i \in bad : \A j \in bad : i <= j]

\* fields.iter().map(field_to_code).collect()?, inside cortex_m::interrupt::free
Block_to_code(collected) ==
  IF ~IsOk(collected) THEN collected
  ELSE [kind |-> "Ok", args |-> <<[name |-> "cortex_m::interrupt::free", body |-> collected.args]>>]

WriteInstruction_to_code(instruction, spec) ==
  IF instruction.variant = "Set"
  THEN field_to_code(instruction.path, instruction.value, spec)
  ELSE Block_to_code(Collect([i \in DOMAIN instruction.fields |->
                                field_to_code(instruction.fields[i][1],
                                              instruction.fields[i][2], spec)]))

\* fields::to_code: the lines of all instructions, or the first error
to_code(instructions, spec) ==
  Collect([i \in DOMAIN instructions |-> WriteInstruction_to_code(instructions[i], spec)])

\* The catalog: the register timer0.cr at 0x40010000 with its fields en (bit 0),
\* rst (bit 1), cnt (bits 2-3) and mode (bits 4-6), and with any reset value and
\* reset mask, or none.
TimerRst == <<"t", "i", "m", "e", "r", "0", ".", "c", "r", ".", "r", "s", "t">>
TimerCnt == <<"t", "i", "m", "e", "r", "0", ".", "c", "r", ".", "c", "n", "t">>

ResetValues == {<<>>, <<U32(0)>>, <<U32(2)>>, <<U32(86)>>, <<U32(127)>>}
ResetMasks == {<<>>, <<U32_MAX>>, <<U32(115)>>}

TimerCr(rv, rm) == [address |-> 1073807360, reset_value |-> rv, reset_mask |-> rm]

RegisterFields(register) ==
  {[path |-> TimerEn, offset |-> 0, width |-> 1, register |-> register],
   [path |-> TimerRst, offset |-> 1, width |-> 1, register |-> register],
   [path |-> TimerCnt, offset |-> 2, width |-> 2, register |-> register],
   [path |-> TimerMode, offset |-> 4, width |-> 3, register |-> register]}

Catalogs == {RegisterFields(TimerCr(rv, rm)) : rv \in ResetValues, rm \in ResetMasks}

\* the paths, expressions, loop limits and instruction lists of the calls
CallPaths == {TimerEn, TimerRst, TimerCnt, TimerMode, BogusField}
CallExprs == {<<"1">>, <<"v">>}
CallLoops == {1000}

Set(path, value) == [variant |-> "Set", path |-> path, value |-> value]
Block(fields) == [variant |-> "Block", fields |-> fields]

CallInstructions ==
  {<<>>}
    \cup {<<Set(p, 1)>> : p \in CallPaths}
    \cup {<<Block(<<<<p, 1>>, <<q, 1>>>>)>> : p, q \in {TimerEn, BogusField}}
    \cup {<<Set(TimerEn, 1), Block(<<<<p, 1>>>>), Set(q, 1)>> : p, q \in {TimerRst, BogusField}}
    \cup {<<Set(TimerEn, 1), Block(<<<<TimerCnt, 2>>, <<TimerRst, 1>>>>), Set(TimerMode, 5)>>,
           <<Block(<<<<TimerRst, 1>>, <<TimerCnt, 3>>, <<TimerRst, 0>>>>), Set(TimerEn, 0),
             Block(<<<<TimerMode, 7>>>>)>>}

FieldInit ==
  /\ device \in Catalogs
  /\ ron = <<>>
  /\ schematic = <<>>
  /\ result = Ok
  /\ ran = <<>>
  /\ pc = "call"
  /\ call = <<>>
  /\ warnings = <<>>
  /\ answer = <<>>
  /\ driver = <<>>

\* One call of an operation: what it returns, or its panic, is the result.  No
\* operation writes a warning or a log line: warnings stays empty.
WriteVal ==
  /\ pc = "call"
  /\ \E path \in CallPaths, expr \in CallExprs, itf \in BOOLEAN :
       /\ call' = [operation |-> "write_val", args |-> <<path, expr, itf>>]
       /\ result' = write_val(device, path, expr, itf)
  /\ warnings' = <<>>
  /\ pc' = "resolved"
  /\ UNCHANGED <<device, ron, schematic, ran, answer, driver>>

WriteBit ==
  /\ pc = "call"
  /\ \E path \in CallPaths, expr \in CallExprs, itf \in BOOLEAN :
       /\ call' = [operation |-> "write_bit", args |-> <<path, expr, itf>>]
       /\ result' = write_bit(device, path, expr, itf)
  /\ warnings' = <<>>
  /\ pc' = "resolved"
  /\ UNCHANGED <<device, ron, schematic, ran, answer, driver>>

Reset ==
  /\ pc = "call"
  /\ \E path \in CallPaths, itf \in BOOLEAN :
       /\ call' = [operation |-> "reset", args |-> <<path, itf>>]
       /\ result' = reset(device, path, itf)
  /\ warnings' = <<>>
  /\ pc' = "resolved"
  /\ UNCHANGED <<device, ron, schematic, ran, answer, driver>>

SetBit ==
  /\ pc = "call"
  /\ \E path \in CallPaths, itf \in BOOLEAN :
       /\ call' = [operation |-> "set_bit", args |-> <<path, itf>>]
       /\ result' = set_bit(device, path, itf)
  /\ warnings' = <<>>
  /\ pc' = "resolved"
  /\ UNCHANGED <<device, ron, schematic, ran, answer, driver>>

ClearBit ==
  /\ pc = "call"
  /\ \E path \in CallPaths, itf \in BOOLEAN :
       /\ call' = [operation |-> "clear_bit", args |-> <<path, itf>>]
       /\ result' = clear_bit(device, path, itf)
  /\ warnings' = <<>>
  /\ pc' = "resolved"
  /\ UNCHANGED <<device, ron, schematic, ran, answer, driver>>

ReadVal ==
  /\ pc = "call"
  /\ \E path \in CallPaths :
       /\ call' = [operation |-> "read_val", args |-> <<path>>]
       /\ result' = read_val(device, path)
  /\ warnings' = <<>>
  /\ pc' = "resolved"
  /\ UNCHANGED <<device, ron, schematic, ran, answer, driver>>

IsSet ==
  /\ pc = "call"
  /\ \E path \in CallPaths :
       /\ call' = [operation |-> "is_set", args |-> <<path>>]
       /\ result' = is_set(device, path)
  /\ warnings' = <<>>
  /\ pc' = "resolved"
  /\ UNCHANGED <<device, ron, schematic, ran, answer, driver>>

IsClear ==
  /\ pc = "call"
  /\ \E path \in CallPaths :
       /\ call' = [operation |-> "is_clear", args |-> <<path>>]
       /\ result' = is_clear(device, path)
  /\ warnings' = <<>>
  /\ pc' = "resolved"
  /\ UNCHANGED <<device, ron, schematic, ran, answer, driver>>

WaitForVal ==
  /\ pc = "call"
  /\ \E path \in CallPaths, expr \in CallExprs, max_loops \in CallLoops, itf \in BOOLEAN :
       /\ call' = [operation |-> "wait_for_val", args |-> <<path, expr, max_loops, itf>>]
       /\ result' = wait_for_val(device, path, expr, max_loops, itf)
  /\ warnings' = <<>>
  /\ pc' = "resolved"
  /\ UNCHANGED <<device, ron, schematic, ran, answer, driver>>

WaitForClear ==
  /\ pc = "call"
  /\ \E path \in CallPaths, max_loops \in CallLoops, itf \in BOOLEAN :
       /\ call' = [operation |-> "wait_for_clear", args |-> <<path, max_loops, itf>>]
       /\ result' = wait_for_clear(device, path, max_loops, itf)
  /\ warnings' = <<>>
  /\ pc' = "resolved"
  /\ UNCHANGED <<device, ron, schematic, ran, answer, driver>>

WaitForSet ==
  /\ pc = "call"
  /\ \E path \in CallPaths, max_loops \in CallLoops, itf \in BOOLEAN :
       /\ call' = [operation |-> "wait_for_set", args |-> <<path, max_loops, itf>>]
       /\ result' = wait_for_set(device, path, max_loops, itf)
  /\ warnings' = <<>>
  /\ pc' = "resolved"
  /\ UNCHANGED <<device, ron, schematic, ran, answer, driver>>

ToCode ==
  /\ pc = "call"
  /\ \E instructions \in CallInstructions :
       /\ call' = [operation |-> "to_code", args |-> <<instructions>>]
       /\ result' = to_code(instructions, device)
  /\ warnings' = <<>>
  /\ pc' = "resolved"
  /\ UNCHANGED <<device, ron, schematic, ran, answer, driver>>

FieldNext ==
  \/ WriteVal \/ WriteBit \/ Reset \/ SetBit \/ ClearBit \/ ReadVal \/ IsSet \/ IsClear
  \/ WaitForVal \/ WaitForClear \/ WaitForSet \/ ToCode

FieldSpec == FieldInit /\ [][FieldNext]_vars

(***************************************************************************)
(* The command-line driver (main.rs).  glob yields the entries that match  *)
(* the pattern; an entry is a directory, an error of glob, or a file, and  *)
(* a file is one that every step of the loop body succeeds on ("ok") or    *)
(* the step that fails on it.  driver holds the entries, the index of the  *)
(* next one, found_file, the files that generators::generate completed,    *)
(* the errors that main reported and the position of the program.          *)
(***************************************************************************)
MaxFiles == 3

EntryKinds ==
  {"ok", "dir", "glob_error", "not_utf8", "open", "read", "from_xml", "new_in_subdir",
   "generate", "post_process"}

\* the steps of the loop body that return an error with ?
ReturnsErr == {"glob_error", "not_utf8", "read", "from_xml", "new_in_subdir", "generate",
               "post_process"}

DriverInit ==
  /\ device = DeviceFields
  /\ ron = <<>>
  /\ schematic = <<>>
  /\ result = Ok
  /\ ran = <<>>
  /\ pc = "driver"
  /\ call = <<>>
  /\ warnings = <<>>
  /\ answer = <<>>
  /\ driver \in {[entries |-> e, index |-> 1, found_file |-> FALSE, generated |-> {},
                   reported |-> <<>>, result |-> Ok, pc |-> "run"] :
                    e \in UNION {[1 .. n -> EntryKinds] : n \in 0 .. MaxFiles}}

\* one iteration of `for entry in glob(file_glob)?` in run
ProcessEntry ==
  /\ pc = "driver"
  /\ driver.pc = "run"
  /\ driver.index <= Len(driver.entries)
  /\ LET entry == driver.entries[driver.index]
     IN driver' =
          IF entry = "dir" THEN [driver EXCEPT !.index = @ + 1]
          ELSE IF entry = "glob_error"
          THEN [driver EXCEPT !.result = Err(entry, <<driver.index>>), !.pc = "returned"]
          ELSE IF entry = "open"
          THEN [driver EXCEPT !.found_file = TRUE,
                              !.result = Panic("called Result::unwrap() on an Err value",
                                               <<entry>>),
                              !.pc = "panicked"]
          ELSE IF entry \in ReturnsErr
          THEN [driver EXCEPT !.found_file = TRUE,
                              !.generated = IF entry = "post_process"
                                            THEN @ \cup {driver.index} ELSE @,
                              !.result = Err(entry, <<driver.index>>), !.pc = "returned"]
          ELSE [driver EXCEPT !.found_file = TRUE, !.generated = @ \cup {driver.index},
                              !.index = @ + 1]
  /\ UNCHANGED <<device, ron, schematic, result, ran, pc, call, warnings, answer>>

\* the end of the loop of run: error!("No files found") when there was none, Ok(())
RunReturns ==
  /\ pc = "driver"
  /\ driver.pc = "run"
  /\ driver.index > Len(driver.entries)
  /\ driver' = [driver EXCEPT !.reported = IF driver.found_file THEN @
                                           ELSE Append(@, <<"No files found">>),
                              !.result = Ok, !.pc = "returned"]
  /\ UNCHANGED <<device, ron, schematic, result, ran, pc, call, warnings, answer>>

\* main: match run() { Ok(()) => {}, Err(err) => error!(...) }
MainReports ==
  /\ pc = "driver"
  /\ driver.pc = "returned"
  /\ driver' = [driver EXCEPT !.reported = IF IsOk(driver.result) THEN @
                                           ELSE Append(@, <<driver.result.kind>>),
                              !.pc = "exit"]
  /\ UNCHANGED <<device, ron, schematic, result, ran, pc, call, warnings, answer>>

DriverNext == ProcessEntry \/ RunReturns \/ MainReports

\* the program is sequential: it takes its next step as long as it has one
DriverSpec == DriverInit /\ [][DriverNext]_vars /\ WF_vars(DriverNext)

(***************************************************************************)
(* The declared graph, read off the validated schematic: who is declared,  *)
(* what each component reads, and which names may be read.                 *)
(***************************************************************************)

Entries(m) == {m[i] : i \in DOMAIN m}

\* every declared component: where it is declared, its name, the names it reads
Components(s) ==
  {[at |-> <<"oscillator", i>>, name |-> s.oscillators[i].key, ins |-> {},
    terminal |-> FALSE] : i \in DOMAIN s.oscillators}
  \cup
  {[at |-> <<"multiplexer", i>>, name |-> s.multiplexers[i].key,
    ins |-> {x.key : x \in Entries(s.multiplexers[i].inputs)},
    terminal |-> FALSE] : i \in DOMAIN s.multiplexers}
  \cup
  {[at |-> <<"divider", i>>, name |-> s.dividers[i].key, ins |-> {s.dividers[i].input},
    terminal |-> FALSE] : i \in DOMAIN s.dividers}
  \cup
  {[at |-> <<"multiplier", i>>, name |-> s.multipliers[i].key,
    ins |-> {s.multipliers[i].input}, terminal |-> FALSE] : i \in DOMAIN s.multipliers}
  \cup
  {[at |-> <<"tap", i>>, name |-> s.taps[i].key, ins |-> {s.taps[i].input},
    terminal |-> s.taps[i].terminal] : i \in DOMAIN s.taps}

InputReferences(s) == UNION {c.ins : c \in Components(s)}

AllNames(s) == {c.name : c \in Components(s)} \cup InputReferences(s)

CharsBetween(lo, hi) == {AsciiPrintable[k - 31] : k \in lo .. hi}

\* a-z, 0-9 and the underscore
PermittedChars == CharsBetween(97, 122) \cup CharsBetween(48, 57) \cup CharsBetween(95, 95)

\* A-Z
UppercaseLetters == CharsBetween(65, 90)

\* the first character of a name that is outside a set of characters
FirstCharOutside(name, chars) ==
  name[CHOOSE i \in DOMAIN name :
         /\ name[i] \notin chars
         /\ \A j \in DOMAIN name : name[j] \notin chars => i <= j]

NamesOutside(s, chars) ==
  {n \in AllNames(s) : \E i \in DOMAIN n : n[i] \notin chars}

\* the names that two declared components share
DuplicatedNames(s) ==
  {c.name : c \in {c \in Components(s) : \E d \in Components(s) :
                                           d.at # c.at /\ d.name = c.name}}

(***************************************************************************)
(* C1: building a clock generator runs the checks in the order name        *)
(* characters, duplicate names, nonexistent inputs, unused outputs,        *)
(* multiplexer defaults, divider defaults, multiplier defaults, loops,     *)
(* field paths, bit-value sizes; it stops at the first check that fails    *)
(* and returns that check's error, and succeeds only when all ten pass.    *)
(***************************************************************************)
ClaimedOrder ==
  <<"check_valid_names", "check_no_duplicate_names", "check_all_inputs_exist",
    "check_all_outputs_are_used", "check_multiplexer_defaults_exist",
    "check_divider_defaults_exist", "check_multiplier_defaults_exist",
    "check_no_loops", "check_valid_field_paths", "check_valid_field_input_sizes">>

\* what a check of the claimed order says of the built generator, taken alone
Alone(i) == RunCheck([spec |-> device, schematic |-> schematic], ClaimedOrder[i])

C1_FixedOrderFirstFailure ==
  pc = "generator" =>
    LET failing == {i \in DOMAIN ClaimedOrder : ~IsOk(Alone(i))}
    IN IF failing = {}
       THEN result = Ok /\ ran = ClaimedOrder
       ELSE LET first == CHOOSE i \in failing : \A j \in failing : i <= j
            IN result = Alone(first) /\ ran = SubSeq(ClaimedOrder, 1, first)

\* a generator on which two checks would fail, refused with the earlier one's error
C1_Witness ==
  /\ pc = "generator"
  /\ result.kind = "UnusedOutputs"
  /\ ~IsOk(Alone(9))
  /\ Len(ran) = 4

(***************************************************************************)
(* C2: validation refuses, with the error "Name '<n>' contains invalid     *)
(* character: '<c>'", every schematic in which some component name or      *)
(* input reference has a character that is, once lowercased, none of a-z,  *)
(* 0-9 and the underscore; <n> is such a name and <c> its first such       *)
(* character.  It lets every other schematic past the name check, names    *)
(* with uppercase letters included.                                        *)
(***************************************************************************)
C2_InvalidNamesRejected ==
  pc # "source" =>
    LET bad == NamesOutside(schematic, PermittedChars \cup UppercaseLetters)
    IN IF bad = {} THEN result.kind # "InvalidName"
       ELSE /\ result.kind = "InvalidName"
            /\ result.args[1] \in bad
            /\ result.args[2] =
                 <<FirstCharOutside(result.args[1], PermittedChars \cup UppercaseLetters)>>

\* a name with an uppercase letter and a space is refused for the space
C2_Witness ==
  /\ pc = "schematic"
  /\ result = Err("InvalidName", <<<<"B", " ">>, <<" ">>>>)

\* C2 as the specification words it: every character other than a-z, 0-9 and
\* the underscore is refused, and only those
C2_AsWritten ==
  pc # "source" =>
    (result.kind = "InvalidName" <=> NamesOutside(schematic, PermittedChars) # {})

(***************************************************************************)
(* C3: when every name has valid characters, validation fails with         *)
(* "Duplicate name: <n>" exactly when two declared components, of any      *)
(* kinds, have the same name, and <n> is a name that two of them share.    *)
(***************************************************************************)
C3_DuplicateNamesRejected ==
  (pc # "source" /\ NamesOutside(schematic, PermittedChars \cup UppercaseLetters) = {}) =>
    IF DuplicatedNames(schematic) = {} THEN result.kind # "DuplicateName"
    ELSE /\ result.kind = "DuplicateName"
         /\ Len(result.args) = 1
         /\ result.args[1] \in DuplicatedNames(schematic)

\* two oscillators and two taps that take their names
C3_Witness ==
  /\ pc = "schematic"
  /\ result.kind = "DuplicateName"
  /\ Cardinality(DuplicatedNames(schematic)) = 2

\* the names that may be read: every declared name but a terminal tap's
NonTerminalNames(s) == {c.name : c \in {c \in Components(s) : ~c.terminal}}

\* the references, other than "off", to no name that may be read
NonexistentInputs(s) == {r \in InputReferences(s) : r # Off /\ r \notin NonTerminalNames(s)}

\* the names that may be read and that nothing reads
UnusedOutputs(s) == NonTerminalNames(s) \ InputReferences(s)

NamesPass(s) ==
  /\ NamesOutside(s, PermittedChars \cup UppercaseLetters) = {}
  /\ DuplicatedNames(s) = {}

(***************************************************************************)
(* C4: with valid, unique names, validation fails with "Nonexistent        *)
(* inputs" exactly when some input reference other than "off" is not the   *)
(* name of an oscillator, multiplexer, divider, multiplier or non-terminal *)
(* tap (a terminal tap's name counts as nonexistent), and the message      *)
(* lists every such reference once, in ascending order.                    *)
(***************************************************************************)
C4_NonexistentInputsListed ==
  (pc # "source" /\ NamesPass(schematic)) =>
    IF NonexistentInputs(schematic) = {} THEN result.kind # "NonexistentInputs"
    ELSE result = Err("NonexistentInputs",
                      <<join(SortedSeq(NonexistentInputs(schematic)), CommaSep)>>)

\* two references fail, one of them to a terminal tap
C4_Witness ==
  /\ pc = "schematic"
  /\ result.kind = "NonexistentInputs"
  /\ Cardinality(NonexistentInputs(schematic)) = 2
  /\ \E c \in Components(schematic) :
       c.terminal /\ c.name \in NonexistentInputs(schematic)

(***************************************************************************)
(* C5: when the earlier checks pass, validation fails with "Unused         *)
(* outputs" exactly when some non-terminal output is read by no component, *)
(* and the message lists all unused outputs, sorted and without repeats.   *)
(***************************************************************************)
C5_UnusedOutputsSorted ==
  (pc # "source" /\ NamesPass(schematic) /\ NonexistentInputs(schematic) = {}) =>
    IF UnusedOutputs(schematic) = {} THEN result.kind # "UnusedOutputs"
    ELSE result = Err("UnusedOutputs",
                      <<join(SortedSeq(UnusedOutputs(schematic)), CommaSep)>>)

(***************************************************************************)
(* C6: in every schematic that validation accepts, every non-terminal      *)
(* output is read by some other component (reading itself does not count), *)
(* and every input reference is "off" or the name of a non-terminal        *)
(* output.                                                                 *)
(***************************************************************************)
C6_ReferentialClosure ==
  (pc = "schematic" /\ IsOk(result)) =>
    /\ \A c \in Components(schematic) :
         ~c.terminal => \E d \in Components(schematic) : d.at # c.at /\ c.name \in d.ins
    /\ NonexistentInputs(schematic) = {}

\* the multiplexers whose default is none of their inputs
BadMultiplexers(s) ==
  {m.key : m \in {m \in Entries(s.multiplexers) :
                    m.default \notin {i.key : i \in Entries(m.inputs)}}}

\* the dividers with a value list that lacks their default
BadDividers(s) ==
  {d.key : d \in {d \in Entries(s.dividers) :
                    /\ d.values # <<>>
                    /\ d.default \notin {v.divisor : v \in Entries(d.values)}}}

\* the multipliers with a value list that lacks their default
BadMultipliers(s) ==
  {m.key : m \in {m \in Entries(s.multipliers) :
                    /\ m.values # <<>>
                    /\ m.default \notin {v.factor : v \in Entries(m.values)}}}

\* the checks ahead of the multiplexer defaults pass
GraphPasses(s) ==
  NamesPass(s) /\ NonexistentInputs(s) = {} /\ UnusedOutputs(s) = {}

\* the checks ahead of the loop detection pass
DefaultsPass(s) ==
  GraphPasses(s) /\ BadMultiplexers(s) = {} /\ BadDividers(s) = {} /\ BadMultipliers(s) = {}

\* the components that read a name of S, "off" apart
Successors(s, S) == {c.name : c \in {c \in Components(s) : (c.ins \ {Off}) \cap S # {}}}

RECURSIVE ReachableFrom(_, _)
ReachableFrom(s, S) ==
  LET next == S \cup Successors(s, S)
  IN IF next = S THEN S ELSE ReachableFrom(s, next)

\* the names on a directed cycle of the input relation
CycleNodes(s) ==
  {n \in {c.name : c \in Components(s)} : n \in ReachableFrom(s, Successors(s, {n}))}

\* the directed cycles, each from every node of it: n1, ..., nk, all different,
\* each read by the next and nk read by n1
Cycles(s) ==
  UNION {{q \in [1 .. k -> CycleNodes(s)] :
            /\ \A i, j \in 1 .. k : i # j => q[i] # q[j]
            /\ \A i \in 1 .. k : q[(i % k) + 1] \in Successors(s, {q[i]})} :
         k \in 1 .. Cardinality(CycleNodes(s))}

Rotations(q) ==
  {[i \in 1 .. Len(q) |-> q[((i + j - 1) % Len(q)) + 1]] : j \in 0 .. Len(q) - 1}

IsInfix(x, y) == \E i \in 0 .. Len(y) - Len(x) : SubSeq(y, i + 1, i + Len(x)) = x

(***************************************************************************)
(* C7: every schematic that passes the earlier checks and whose input      *)
(* relation, "off" apart, has a directed cycle is rejected with "Loop(s)   *)
(* detected", and the message holds the names of each cycle in traversal   *)
(* order, wherever in the graph the cycle lies.                            *)
(***************************************************************************)
C7_EveryCycleRejected ==
  (pc # "source" /\ DefaultsPass(schematic) /\ CycleNodes(schematic) # {}) =>
    /\ result.kind = "Loops"
    /\ \A q \in Cycles(schematic) :
         \E r \in Rotations(q) : IsInfix(join(Append(r, r[1]), ArrowSep), result.args[1])

(***************************************************************************)
(* C8: a schematic that validation accepts has no directed cycle reachable *)
(* from any of its oscillators, however many oscillators it has.           *)
(***************************************************************************)
C8_NoCycleReachableFromOscillators ==
  (pc = "schematic" /\ IsOk(result)) =>
    ReachableFrom(schematic, {o.key : o \in Entries(schematic.oscillators)})
      \cap CycleNodes(schematic) = {}

\* the loop of a path: from the earliest position whose name recurs later up to and
\* including the next occurrence of that name
LoopsOf(path) ==
  {SubSeq(path, ab[1], ab[2]) : ab \in
     {ab \in (DOMAIN path) \X (DOMAIN path) :
        /\ ab[1] < ab[2]
        /\ path[ab[1]] = path[ab[2]]
        /\ \A k \in ab[1] + 1 .. ab[2] - 1 : path[k] # path[ab[1]]
        /\ \A k \in 1 .. ab[1] - 1 : \A l \in k + 1 .. Len(path) : path[l] # path[k]}}

\* the loop descriptions of the expanded paths
LoopDescriptions(s) ==
  UNION {{join(l, ArrowSep) : l \in LoopsOf(p)} : p \in Entries(get_paths(s))}

\* an oscillator a into the multiplexer m, and m -> d -> u -> m
FeedbackExample ==
  ClockSchematic(<<Oscillator(<<"a">>)>>,
                 <<Multiplexer(<<"m">>,
                               <<MultiplexerInput(<<"a">>, 0), MultiplexerInput(<<"u">>, 1)>>,
                               <<"a">>, TimerMode)>>,
                 <<Scaler(<<"d">>, <<"m">>, 1, <<>>, <<>>)>>,
                 <<Scaler(<<"u">>, <<"d">>, 2, <<MultiplierOption(<<"x", "2">>, 2, 1)>>,
                          TimerMode)>>,
                 <<>>)

(***************************************************************************)
(* C9: when the loop detection fails, its message is "Loop(s) detected: "  *)
(* and the distinct loop descriptions in ascending order, separated by     *)
(* ", "; a description is, for one expanded path, the nodes from the       *)
(* earliest position whose name recurs later up to and including its next  *)
(* occurrence, joined by " -> ".  An oscillator into m with m -> d -> u    *)
(* fed back into m gives "m -> d -> u -> m", once.                         *)
(***************************************************************************)
C9_LoopMessage ==
  /\ (pc # "source" /\ result.kind = "Loops") =>
       /\ LoopDescriptions(schematic) # {}
       /\ result.args = <<join(SortedSeq(LoopDescriptions(schematic)), CommaSep)>>
  /\ (pc # "source" /\ ron = FeedbackExample) =>
       result = Err("Loops", <<<<"m", " ", "-", ">", " ", "d", " ", "-", ">", " ", "u",
                                 " ", "-", ">", " ", "m">>>>)

\* two loops, found on several paths and listed in ascending order
C9_Witness ==
  /\ pc = "schematic"
  /\ result.kind = "Loops"
  /\ Cardinality(LoopDescriptions(schematic)) = 2
  /\ Len(get_paths(schematic)) > 2

(***************************************************************************)
(* C10: when the earlier checks pass, validation fails with "Multiplexers  *)
(* have default inputs not in their input lists" exactly when the default  *)
(* of some multiplexer is none of its declared inputs (a multiplexer       *)
(* without inputs included), and the message names every such multiplexer  *)
(* and no other.                                                           *)
(***************************************************************************)
C10_MultiplexerDefaults ==
  (pc # "source" /\ GraphPasses(schematic)) =>
    LET bad == BadMultiplexers(schematic)
    IN IF bad = {} THEN result.kind # "MultiplexerDefaults"
       ELSE /\ result.kind = "MultiplexerDefaults"
            /\ \E q \in [1 .. Cardinality(bad) -> bad] :
                 /\ \A n \in bad : \E i \in DOMAIN q : q[i] = n
                 /\ result.args = <<join(q, CommaSep)>>

\* of two multiplexers, the one without inputs is named and the other is not
C10_Witness ==
  /\ pc = "schematic"
  /\ result.kind = "MultiplexerDefaults"
  /\ Len(schematic.multiplexers) = 2
  /\ Cardinality(BadMultiplexers(schematic)) = 1
  /\ \E m \in Entries(schematic.multiplexers) :
       m.inputs = <<>> /\ result.args = <<m.key>>

\* the dividers, or multipliers, of a map that have no options
FixedRatio(m) == {c \in Entries(m) : c.values = <<>>}

(***************************************************************************)
(* C11: when the earlier checks pass, validation fails with "Dividers have *)
(* default values not in their value lists" exactly when some divider with *)
(* at least one option has a default that is the divisor of none of them,  *)
(* and, the dividers being in order, with "Multipliers have default values *)
(* not in their value lists" exactly when some multiplier with at least    *)
(* one option has a default that is the factor of none of them; a divider  *)
(* or multiplier without options is not rejected, whatever its default.    *)
(***************************************************************************)
C11_ScalerDefaults ==
  (pc # "source" /\ GraphPasses(schematic) /\ BadMultiplexers(schematic) = {}) =>
    /\ result.kind = "DividerDefaults" <=> BadDividers(schematic) # {}
    /\ BadDividers(schematic) = {} =>
         (result.kind = "MultiplierDefaults" <=> BadMultipliers(schematic) # {})
    /\ (\A d \in Entries(schematic.dividers) : d.values = <<>>) =>
         result.kind # "DividerDefaults"
    /\ (\A m \in Entries(schematic.multipliers) : m.values = <<>>) =>
         result.kind # "MultiplierDefaults"

\* a divider with options is rejected next to a fixed-ratio divider whose default
\* is no usual ratio, and only the former is named
C11_Witness ==
  /\ pc = "schematic"
  /\ result.kind = "DividerDefaults"
  /\ \E d \in FixedRatio(schematic.dividers) : d.default = 3
  /\ \E d \in Entries(schematic.dividers) :
       d.values # <<>> /\ result.args = <<d.key>>

\* args is the names of S, each once, in some order, joined by ", "
ListsExactly(args, S) ==
  \E q \in [1 .. Cardinality(S) -> S] :
    /\ \A n \in S : \E i \in DOMAIN q : q[i] = n
    /\ args = <<join(q, CommaSep)>>

\* the kinds of default errors, as validate checks them, with their offenders
DefaultOffenders(s) ==
  <<[kind |-> "MultiplexerDefaults", bad |-> BadMultiplexers(s)],
    [kind |-> "DividerDefaults", bad |-> BadDividers(s)],
    [kind |-> "MultiplierDefaults", bad |-> BadMultipliers(s)]>>

(***************************************************************************)
(* C12: when the earlier checks pass and some multiplexer, divider or      *)
(* multiplier has a default that is not among its own options, validation  *)
(* fails with the error of the first kind, in the order multiplexers,      *)
(* dividers, multipliers, that has offenders, and the error names every    *)
(* offender of that kind and nothing else; offenders of the later kinds    *)
(* are not named.                                                          *)
(***************************************************************************)
C12_FirstKindOffendersNamed ==
  (pc # "source" /\ GraphPasses(schematic)) =>
    LET kinds == DefaultOffenders(schematic)
    IN \A k \in DOMAIN kinds :
         (kinds[k].bad # {} /\ \A j \in 1 .. k - 1 : kinds[j].bad = {}) =>
           /\ result.kind = kinds[k].kind
           /\ ListsExactly(result.args, kinds[k].bad)

\* both dividers are offenders and both are named, next to an offending
\* multiplier that is not
C12_Witness ==
  /\ pc = "schematic"
  /\ result.kind = "DividerDefaults"
  /\ Cardinality(BadDividers(schematic)) = 2
  /\ BadMultipliers(schematic) # {}
  /\ ListsExactly(result.args, BadDividers(schematic))

\* C12 as the claim states it: the error names the offenders of all kinds
C12_AsWritten ==
  (pc # "source" /\ GraphPasses(schematic)) =>
    LET bad == BadMultiplexers(schematic) \cup BadDividers(schematic)
                 \cup BadMultipliers(schematic)
    IN bad # {} =>
         /\ result.kind \in {"MultiplexerDefaults", "DividerDefaults", "MultiplierDefaults"}
         /\ ListsExactly(result.args, bad)

\* the schematic passed ClockSchematic::validate, and the generator went on to
\* its own checks
GraphValid ==
  pc = "generator" /\ \E i \in DOMAIN ran : ran[i] = "check_valid_field_paths"

\* the multiplexers, and the dividers and multipliers with options: the components
\* whose path addresses a field
FieldOwners(s) ==
  Entries(s.multiplexers)
    \cup {c \in Entries(s.dividers) \cup Entries(s.multipliers) : c.values # <<>>}

CatalogPaths == {f.path : f \in device}

\* the paths of field owners that the catalog lacks
AbsentPaths(s) == {c.path : c \in FieldOwners(s)} \ CatalogPaths

(***************************************************************************)
(* C13: for a schematic that passes the schematic validation, the          *)
(* construction of the ClockGenerator fails with "No field named '<path>'  *)
(* in SVD spec" exactly when the path of some multiplexer, or of some      *)
(* divider or multiplier with at least one option, is absent from the      *)
(* catalog, <path> being such a path; the blank or unknown path of a       *)
(* fixed-ratio divider or multiplier never causes the failure.             *)
(***************************************************************************)
C13_AbsentFieldPaths ==
  GraphValid =>
    /\ result.kind = "NoField" <=> AbsentPaths(schematic) # {}
    /\ result.kind = "NoField" =>
         \E p \in AbsentPaths(schematic) : result.args = <<p>>

\* the multiplier's unknown path is reported, next to a fixed-ratio divider whose
\* blank path is not
C13_Witness ==
  /\ GraphValid
  /\ result = Err("NoField", <<BogusField>>)
  /\ \E d \in FixedRatio(schematic.dividers) : d.path = <<>>
  /\ \A m \in Entries(schematic.multiplexers) : m.path \in CatalogPaths

\* (1 << w) - 1 as a u32: its w low bits
LowOnes(w) == [i \in 1 .. 32 |-> IF i > 32 - w THEN 1 ELSE 0]

\* v > (1 << w) - 1, for v below 2^31
Exceeds(v, w) == w <= 30 /\ v >= 2 ^ w

\* the bit values that a field owner assigns to its field
BitValuesOf(c) ==
  {i.bit_value : i \in Entries(IF "inputs" \in DOMAIN c THEN c.inputs ELSE c.values)}

\* the field owners with a bit value that exceeds the width of their field
Oversized(s) ==
  {c \in FieldOwners(s) :
     \E f \in device : f.path = c.path /\ \E v \in BitValuesOf(c) : Exceeds(v, f.width)}

(***************************************************************************)
(* C14: for every field width w in 1 .. 32 the maximum that the size check *)
(* computes, u32::MAX << (32 - w) >> (32 - w), is (1 << w) - 1, and a      *)
(* construction that reaches the size check fails with the size error      *)
(* exactly when some multiplexer input, divider option or multiplier       *)
(* option has a bit value above (1 << w) - 1, w the width of its field.    *)
(***************************************************************************)
C14_BitFit ==
  /\ \A f \in device : max_val(f.width) = LowOnes(f.width)
  /\ (GraphValid /\ AbsentPaths(schematic) = {}) =>
       (result.kind = "BitValueTooBig" <=> Oversized(schematic) # {})

\* 2^30 does not fit a field of 30 bits
C14_Witness ==
  /\ GraphValid
  /\ \E f \in device : f.width = 30
  /\ result.kind = "BitValueTooBig"
  /\ result.args[1] = ToDecimal(2 ^ 30)
  /\ result.args[2] = <<"3", "0">>

(***************************************************************************)
(* C15: the size error names the bit value, the width of the field, the    *)
(* path of the field and, in parentheses, the owning component: the        *)
(* multiplexer, divider or multiplier that declares the oversized value,   *)
(* also when the input or option that carries it has another name.         *)
(***************************************************************************)
C15_SizeErrorNamesOwner ==
  (pc = "generator" /\ result.kind = "BitValueTooBig") =>
    \E c \in Oversized(schematic) :
      \E f \in device, v \in BitValuesOf(c) :
        /\ f.path = c.path
        /\ Exceeds(v, f.width)
        /\ result.args = <<ToDecimal(v), ToDecimal(f.width), c.path, c.key>>

\* the field references that carry fixed bit values: the field owners and the
\* flash-latency table, each with its path and its bit values
FieldReferences(s) ==
  {[path |-> c.path, bit_values |-> BitValuesOf(c)] : c \in FieldOwners(s)}
    \cup {[path |-> s.flash_latency.path,
           bit_values |-> {r.bit_value : r \in Entries(s.flash_latency.ranges)}]}

(***************************************************************************)
(* C16: when the construction of the ClockGenerator succeeds, every field  *)
(* reference that carries fixed bit values (the path of each multiplexer   *)
(* with the bit values of its inputs, the path of each divider and         *)
(* multiplier with options with the bit values of its options, the path of *)
(* the flash-latency table with the bit values of its ranges) names a      *)
(* field of the catalog, and each bit value is at most 2^width - 1.        *)
(***************************************************************************)
C16_FieldReferencesValid ==
  (pc = "generator" /\ IsOk(result)) =>
    \A r \in FieldReferences(schematic) :
      \E f \in device :
        /\ f.path = r.path
        /\ \A v \in r.bit_values : ~Exceeds(v, f.width)

\* the field of the catalog that the call names, if any
CalledFields == {f \in device : call # <<>> /\ f.path = call.args[1]}

\* the mask of a field: the bits offset .. offset + width - 1
FieldMask(f) ==
  [i \in 1 .. 32 |-> IF 32 - i >= f.offset /\ 32 - i < f.offset + f.width THEN 1 ELSE 0]

\* the value that an instruction writes: the last of its arguments
WrittenValue(instruction) == instruction.args[Len(instruction.args)]

(***************************************************************************)
(* C17: for a field (mask, offset) whose register has the reset value R    *)
(* and the reset mask M, the value that the instruction of reset(path)     *)
(* writes is the field's own bits of the reset value, (R & M & mask) >>    *)
(* offset, for every offset.                                               *)
(***************************************************************************)
C17_ResetWritesFieldBits ==
  (pc = "resolved" /\ call.operation = "reset" /\ IsOk(result)) =>
    \A f \in CalledFields :
      (f.register.reset_value # <<>> /\ f.register.reset_mask # <<>>) =>
        WrittenValue(result.args[1]) =
          Shr32(And32(And32(f.register.reset_value[1], f.register.reset_mask[1]),
                      FieldMask(f)),
                f.offset)

\* the catalog with the reset value 0 and the reset mask of all ones declared
\* wherever the register has none
WithDeclaredDefaults(catalog) ==
  {[f EXCEPT !.register.reset_value = IF @ = <<>> THEN <<U32(0)>> ELSE @,
             !.register.reset_mask = IF @ = <<>> THEN <<U32_MAX>> ELSE @] : f \in catalog}

\* the register of a field lacks its reset value, its reset mask, or both
LacksResetMetadata(f) == f.register.reset_value = <<>> \/ f.register.reset_mask = <<>>

(***************************************************************************)
(* C18: reset(path) on a field whose register has no reset value or no     *)
(* reset mask in the catalog succeeds, with the instruction that a reset   *)
(* value of 0 and a reset mask of all ones in place of the missing item    *)
(* give, and the missing metadata is reported as a warning that comes with *)
(* the successful result.                                                  *)
(***************************************************************************)
C18_MissingResetMetadataWarned ==
  (pc = "resolved" /\ call.operation = "reset") =>
    \A f \in CalledFields :
      LacksResetMetadata(f) =>
        /\ IsOk(result)
        /\ result = reset(WithDeclaredDefaults(device), call.args[1], call.args[2])
        /\ warnings # <<>>

(***************************************************************************)
(* C19: set_bit and clear_bit return an instruction only for a field of    *)
(* width 1; for a field of any other width they return a usage error to    *)
(* the caller, and no instruction.                                         *)
(***************************************************************************)
C19_SingleBitUsageError ==
  (pc = "resolved" /\ call.operation \in {"set_bit", "clear_bit"}) =>
    \A f \in CalledFields :
      IF f.width = 1 THEN IsOk(result) ELSE result.kind \notin {"Ok", "Panic"}

\* the paths that a call names
CalledPaths ==
  IF call.operation = "to_code"
  THEN UNION {IF i.variant = "Set" THEN {i.path} ELSE {e[1] : e \in Entries(i.fields)} :
                i \in Entries(call.args[1])}
  ELSE {call.args[1]}

(***************************************************************************)
(* C20: a field operation (write_val, write_bit, reset, set_bit,           *)
(* clear_bit, read_val, is_set, is_clear, wait_for_val, wait_for_set,      *)
(* wait_for_clear, and the write instructions Set and Block) on a path     *)
(* that the catalog does not contain returns an error to the caller: it    *)
(* yields no instruction, and it does not abort.                           *)
(***************************************************************************)
C20_UnknownPathIsError ==
  (pc = "resolved" /\ CalledPaths \ CatalogPaths # {}) =>
    result.kind \notin {"Ok", "Panic"}

(***************************************************************************)
(* C21: the name of the system clock multiplexer plays no part in the      *)
(* validation: a schematic whose sys_clk_mux names no multiplexer is       *)
(* accepted or rejected as it is with any other name.  get_sys_clk_mux     *)
(* returns the multiplexer of that name when there is one, and otherwise   *)
(* fails with "System clock multiplexer '<name>' does not exist".          *)
(***************************************************************************)
C21_SysClkMuxOnQuery ==
  /\ pc = "schematic" =>
       result = postprocess([ron EXCEPT !.sys_clk_mux = <<"m">>]).result
  /\ (pc = "answered" /\ answer.operation = "get_sys_clk_mux") =>
       LET named == {m \in Entries(schematic.multiplexers) : m.key = schematic.sys_clk_mux}
       IN IF named = {} THEN answer.result = Err("NoSysClkMux", <<schematic.sys_clk_mux>>)
          ELSE IsOk(answer.result) /\ answer.result.args[1] \in named

\* an accepted schematic with multiplexers, none of them the system clock
\* multiplexer, and the query fails
C21_Witness ==
  /\ pc = "answered"
  /\ answer.operation = "get_sys_clk_mux"
  /\ IsOk(result)
  /\ Len(schematic.multiplexers) = 2
  /\ answer.result = Err("NoSysClkMux", <<<<"x">>>>)

\* every entry of a map carries its key as its name
KeyNamed(m) == \A i \in DOMAIN m : m[i].name = m[i].key

(***************************************************************************)
(* C22: in a constructed schematic the name of every oscillator,           *)
(* multiplexer and multiplexer input, divider and divider option,          *)
(* multiplier and multiplier option, tap and flash-latency range is the    *)
(* key it is stored under, whatever name its body gave in the source.      *)
(***************************************************************************)
C22_NamesAreKeys ==
  (pc # "source" /\ IsOk(result)) =>
    /\ KeyNamed(schematic.flash_latency.ranges)
    /\ KeyNamed(schematic.oscillators)
    /\ KeyNamed(schematic.multiplexers)
    /\ \A k \in DOMAIN schematic.multiplexers : KeyNamed(schematic.multiplexers[k].inputs)
    /\ KeyNamed(schematic.dividers)
    /\ \A k \in DOMAIN schematic.dividers : KeyNamed(schematic.dividers[k].values)
    /\ KeyNamed(schematic.multipliers)
    /\ \A k \in DOMAIN schematic.multipliers : KeyNamed(schematic.multipliers[k].values)
    /\ KeyNamed(schematic.taps)

\* a schematic constructed from a source whose bodies all give another name
C22_Witness ==
  /\ pc = "schematic"
  /\ IsOk(result)
  /\ ron.oscillators[1].name = <<"!">>
  /\ ron.dividers[1].values[2].name = <<"!">>
  /\ ron.multiplexers[1].inputs[1].name = <<"!">>
  /\ ron.flash_latency.ranges[1].name = <<"!">>
  /\ schematic.dividers[1].values[2].name = <<"q">>

(***************************************************************************)
(* C23: validation is deterministic in the content of the schematic: a     *)
(* second validation of the validated schematic, and a validation of the   *)
(* same content with the maps iterating in another order, end as the first *)
(* did, in acceptance or in rejection with the same message; a validation  *)
(* leaves the schematic as it was.                                         *)
(***************************************************************************)
C23_ValidationDeterministic ==
  (pc = "answered" /\ answer.operation \in {"validate", "from_ron"}) =>
    /\ answer.result = result
    /\ answer.operation = "validate" => answer.sch = schematic

OscillatorKeys == {schematic.oscillators[i].key : i \in DOMAIN schematic.oscillators}

(***************************************************************************)
(* C24: the expansion starts from one single-element path per oscillator:  *)
(* every path that get_paths returns begins with one oscillator followed   *)
(* by non-oscillator nodes only, and every oscillator begins one of them.  *)
(***************************************************************************)
C24_OnePathPerOscillator ==
  (pc = "answered" /\ answer.operation = "get_paths") =>
    /\ \A i \in DOMAIN answer.result :
         LET path == answer.result[i]
         IN /\ path # <<>>
            /\ path[1] \in OscillatorKeys
            /\ \A j \in 2 .. Len(path) : path[j] \notin OscillatorKeys
    /\ \A o \in OscillatorKeys : \E i \in DOMAIN answer.result : answer.result[i][1] = o

Called(check) == check \in {ran[i] : i \in DOMAIN ran}

DeclaredTakers(x) ==
  {m.key : m \in {c \in Entries(schematic.multiplexers) :
                    \E i \in Entries(c.inputs) : i.key = x}}
    \cup {c.key : c \in {c \in Entries(schematic.dividers) \cup Entries(schematic.multipliers)
                                \cup Entries(schematic.taps) : c.input = x}}

(***************************************************************************)
(* C27: get_next(x) returns the names of the components that declare x as  *)
(* an input (the multiplexers with x among their input keys, the dividers, *)
(* multipliers and taps whose input is x), each of them once, and nothing  *)
(* else; it returns the empty list when nothing refers to x, also when x   *)
(* is no component.                                                        *)
(***************************************************************************)
C27_NextAreTheTakers ==
  (pc = "answered" /\ answer.operation = "get_next") =>
    /\ {answer.result[i] : i \in DOMAIN answer.result} = DeclaredTakers(answer.name)
    /\ Len(answer.result) = Cardinality(DeclaredTakers(answer.name))

\* a fork of all four kinds
C27_Witness ==
  /\ pc = "answered"
  /\ answer.operation = "get_next"
  /\ answer.name = <<"a">>
  /\ Len(answer.result) = 4

\* a name that is no component
C27_WitnessBogus ==
  /\ pc = "answered"
  /\ answer.operation = "get_next"
  /\ answer.name = <<"b", "o", "g", "u", "s">>
  /\ answer.result = <<>>

\* the largest number of a non-empty set of numbers
Largest(S) == CHOOSE n \in S : \A m \in S : m <= n

\* the number of nodes of the longest chain through x, x being its n-th node
\* (counted as far as one beyond the longest chain that sources have)
RECURSIVE LongestThrough(_, _)
LongestThrough(x, n) ==
  IF n > MaxChain \/ DeclaredTakers(x) = {} THEN n
  ELSE Largest({LongestThrough(y, n + 1) : y \in DeclaredTakers(x)})

\* the paths that continue path to a node which nothing takes as input
RECURSIVE MaximalPaths(_)
MaximalPaths(path) ==
  IF Len(path) > MaxChain THEN {}
  ELSE IF DeclaredTakers(path[Len(path)]) = {} THEN {path}
  ELSE UNION {MaximalPaths(Append(path, y)) : y \in DeclaredTakers(path[Len(path)])}

\* multiplexers before dividers before multipliers before taps
KindRank(x) ==
  IF \E c \in Entries(schematic.multiplexers) : c.key = x THEN 1
  ELSE IF \E c \in Entries(schematic.dividers) : c.key = x THEN 2
  ELSE IF \E c \in Entries(schematic.multipliers) : c.key = x THEN 3
  ELSE 4

\* the first position at which two paths part
Fork(p, q) == CHOOSE k \in 1 .. Len(p) : p[k] # q[k] /\ \A l \in 1 .. k - 1 : p[l] = q[l]

(***************************************************************************)
(* C26: on an acyclic schematic with one oscillator whose longest chain    *)
(* has at most 33 nodes, get_paths returns the maximal paths from the      *)
(* oscillator to the nodes without successor, each of them once and no     *)
(* other path, the branches of a fork in the order of the kind of the      *)
(* successor: multiplexers, dividers, multipliers, taps.                   *)
(***************************************************************************)
C26_MaximalPathsInKindOrder ==
  (/\ pc = "answered"
   /\ answer.operation = "get_paths"
   /\ Len(schematic.oscillators) = 1
   /\ LongestThrough(schematic.oscillators[1].key, 1) <= 33) =>
    LET maximal == MaximalPaths(<<schematic.oscillators[1].key>>)
    IN /\ {answer.result[i] : i \in DOMAIN answer.result} = maximal
       /\ Len(answer.result) = Cardinality(maximal)
       /\ \A i, j \in DOMAIN answer.result :
            i < j =>
              KindRank(answer.result[i][Fork(answer.result[i], answer.result[j])])
                <= KindRank(answer.result[j][Fork(answer.result[i], answer.result[j])])

\* the forks: six paths, the one through the multiplexer and the divider
\* first, the tap on the oscillator last
C26_Witness ==
  /\ pc = "answered"
  /\ answer.operation = "get_paths"
  /\ Len(answer.result) = 6
  /\ SubSeq(answer.result[1], 1, 3) = <<<<"a">>, <<"m">>, <<"e">>>>
  /\ answer.result[6] = <<<<"a">>, <<"t">>>>

\* the chain of 33 nodes, returned whole
C26_WitnessChain ==
  /\ pc = "answered"
  /\ answer.operation = "get_paths"
  /\ Len(answer.result) = 1
  /\ Len(answer.result[1]) = 33
  /\ answer.result[1][33] = <<"t">>

(***************************************************************************)
(* C28: every loop that a "Loop(s) detected" error names is a cycle of the *)
(* input relation: its first and last names are equal, of each two         *)
(* consecutive names the first is declared as an input of the second, and  *)
(* no name but the first/last occurs in it twice.                          *)
(***************************************************************************)
C28_NamedLoopIsSimpleCycle ==
  (/\ pc = "answered"
   /\ answer.operation = "find_loop"
   /\ result.kind = "Loops"
   /\ answer.result # <<>>) =>
    LET loop == answer.result
    IN /\ Len(loop) >= 2
       /\ loop[1] = loop[Len(loop)]
       /\ \A k \in 1 .. Len(loop) - 1 : loop[k + 1] \in DeclaredTakers(loop[k])
       /\ \A k, l \in 1 .. Len(loop) - 1 : k # l => loop[k] # loop[l]

\* line is the write_val line of the field at path with the value: the
\* address of the register, the mask of the field, the complement of the mask
\* in 32 bits, the offset and the value
WritesField(line, path, value) ==
  /\ line.name = "write_val"
  /\ Len(line.args) = 5
  /\ \E f \in device :
       /\ f.path = path
       /\ line.args[1] = f.register.address
       /\ line.args[2] = FieldMask(f)
       /\ \A b \in 1 .. 32 : line.args[3][b] = 1 - FieldMask(f)[b]
       /\ line.args[4] = f.offset
  /\ line.args[5] = value

(***************************************************************************)
(* C29: the code of a list of write instructions has them in the order of  *)
(* the list: for a Set one line with the address, the mask, the 32-bit     *)
(* complement of the mask, the offset and the value of its field, outside  *)
(* any wrapper; for a Block one cortex_m::interrupt::free wrapper that     *)
(* holds the lines of all its (path, value) pairs, in their order.         *)
(***************************************************************************)
C29_CodeInInstructionOrder ==
  (pc = "resolved" /\ call.operation = "to_code" /\ IsOk(result)) =>
    LET instructions == call.args[1]
    IN /\ Len(result.args) = Len(instructions)
       /\ \A i \in DOMAIN instructions :
            IF instructions[i].variant = "Set"
            THEN WritesField(result.args[i], instructions[i].path, instructions[i].value)
            ELSE /\ result.args[i].name = "cortex_m::interrupt::free"
                 /\ Len(result.args[i].body) = Len(instructions[i].fields)
                 /\ \A k \in DOMAIN instructions[i].fields :
                      WritesField(result.args[i].body[k], instructions[i].fields[k][1],
                                  instructions[i].fields[k][2])

\* a Set, a Block of two different fields, and a Set, all converted
C29_Witness ==
  /\ pc = "resolved"
  /\ call.operation = "to_code"
  /\ IsOk(result)
  /\ Len(result.args) = 3
  /\ call.args[1][2].variant = "Block"
  /\ Len(result.args[2].body) = 2
  /\ result.args[2].body[1].args[4] = 2
  /\ result.args[2].body[2].args[4] = 1
  /\ result.args[3].args[5] = 5

(***************************************************************************)
(* C30: when the driver processes several matched files, an error on one   *)
(* file is caught and reported and the remaining files are still           *)
(* processed: a file that has no failure of its own is generated also     *)
(* when generators::generate failed for files before it.                   *)
(***************************************************************************)
C30_FailureDoesNotStopBatch ==
  \A i \in 1 .. MaxFiles :
    (/\ pc = "driver"
     /\ i \in DOMAIN driver.entries
     /\ driver.entries[i] = "ok"
     /\ \A j \in 1 .. i - 1 : driver.entries[j] \in {"ok", "dir", "generate"})
      ~> (pc = "driver" /\ i \in driver.generated)

====
